---- MODULE Spec2Model ----
(***************************************************************************)
(* Model of the document question-answering routes of react-auth-dashboard *)
(* (the retrieval helpers chunkText, scoreChunk, getRelevantChunksMultiDoc *)
(* and getRelevantChunks, and the route handlers that call them).          *)
(*                                                                         *)
(* A JavaScript string is a sequence of one-character strings.  A score    *)
(* count / Math.sqrt(words) is the record [num |-> count, den |-> words];  *)
(* two scores are compared through num^2 * den', which orders them as the  *)
(* quotients are ordered.                                                  *)
(***************************************************************************)
EXTENDS Integers, Sequences, FiniteSets, Bags, TLC

VARIABLES
    pc,         \* position of the modelled call or request
    text,       \* argument of chunkText
    chunks,     \* value returned by chunkText
    chunk,      \* first argument of scoreChunk
    question,   \* second argument of scoreChunk
    score,      \* value returned by scoreChunk
    scoreTwice, \* value returned by scoreChunk for two copies of the chunk
    loop,       \* chunkText's parameters and the i of its for loop
    documents,  \* the rows of the documents table, in insertion order
    request,    \* the request being handled: route, session, JSON body (for the
                \* summarize route also what YouTube answers and videoData)
    scope,      \* docsToSearch / doc / workspaceDocs: the rows the request found
    selection,  \* relevantChunks / topChunks: what the selector returned
    context,    \* the sections of the prompt context, in prompt order
    webContext, \* whether searchWithFirecrawl came back with some web context
    modelIndex, \* which model of the fallback list is being called (from 1)
    trace,      \* what the request has done so far, in order: "fetchDocuments",
                \* "select", "webSearch", the model of each generateContent
                \* call, the outcome of each call, "delay"
    response,   \* the response returned, status 0 while there is none
    users,      \* the rows of the users table, by id: role and isApproved
    cookies,    \* the users an auth cookie was issued to at login
    workspaces, \* the rows of the workspaces table, in insertion order
    serial,     \* the last id each serial column has given out
    deleting,   \* the workspace DELETE request between its two statements
    signingIn,  \* the login request that waits for verifyPassword
    asks,       \* the ask requests running side by side, each with its locals
    page        \* the state of the open documents page and its pending calls

\* What the handlers of the routes and of the store leave alone.
callVars == <<text, chunks, chunk, question, score, scoreTwice, loop, asks, page>>

routeVars ==
    <<documents, request, scope, selection, context, webContext, modelIndex, trace,
      response>>

storeVars == <<users, cookies, workspaces, serial, deleting, signingIn>>

vars == <<pc, callVars, routeVars, storeVars>>

(***************************************************************************)
(* Strings                                                                 *)
(***************************************************************************)

\* A text is the sequence of its UTF-16 code units, those of the characters
\* of the Basic Multilingual Plane (a text of the model holds no surrogate).
\* A code unit is written as the character itself where a string of a module
\* can hold it (ASCII but the grave accent, and the characters whose code has
\* a low byte of 0x80 or more: "é", "µ", "Σ") and by its name otherwise:
\* "U+0130" is the one code unit U+0130, "U+2028" the line separator.

\* The characters the regular expression class \s matches (and trim()
\* strips): space, tab, line feed, carriage return, form feed, vertical tab
\* U+000B, no-break space U+00A0, ogham space mark U+1680, U+2000 to U+200A,
\* line and paragraph separators U+2028 and U+2029, U+202F, U+205F, U+3000
\* and the byte order mark U+FEFF.
WhiteSpace ==
    { " ", "\t", "\n", "\r", "\f", "", " ", " ", "U+2000", "U+2001",
      "U+2002", "U+2003", "U+2004", "U+2005", "U+2006", "U+2007", "U+2008",
      "U+2009", "U+200A", "U+2028", "U+2029", "U+202F", "U+205F", "U+3000",
      "﻿" }

IsWs(c) == c \in WhiteSpace

\* The element of a singleton.  { F(x) : x \in {e} } evaluates e once, where an
\* operator given e as its argument evaluates it at every use.
Only(S) == CHOOSE x \in S : TRUE

Min2(a, b) == IF a < b THEN a ELSE b

Max2(a, b) == IF a > b THEN a ELSE b

\* The index k of slice relative to an array of length n: a negative index
\* counts from the end.
relativeIndex(k, n) == IF k < 0 THEN Max2(n + k, 0) ELSE Min2(k, n)

\* Array.prototype.slice(from, to) on a 0-based array held as a 1-based sequence.
slice(s, from, to) ==
    SubSeq(s, relativeIndex(from, Len(s)) + 1, relativeIndex(to, Len(s)))

\* Joining the pieces of two adjacent substrings: the piece that ends the left
\* half and the piece that starts the right half are one piece of the whole,
\* unless a whitespace run spans the cut, which separates and leaves no piece.
SplitMerge(L, R, runSpansCut) ==
    IF runSpansCut
    THEN SubSeq(L, 1, Len(L) - 1) \o Tail(R)
    ELSE SubSeq(L, 1, Len(L) - 1) \o << L[Len(L)] \o R[1] >> \o Tail(R)

\* String.prototype.split(/\s+/) of s[lo..hi], by halving (the pieces between
\* maximal whitespace runs; a leading or trailing run leaves an empty piece).
RECURSIVE SplitRange(_, _, _)
SplitRange(s, lo, hi) ==
    IF hi < lo THEN << <<>> >>
    ELSE IF lo = hi
         THEN IF IsWs(s[lo]) THEN << <<>>, <<>> >> ELSE << <<s[lo]>> >>
         ELSE SplitMerge(SplitRange(s, lo, (lo + hi) \div 2),
                         SplitRange(s, (lo + hi) \div 2 + 1, hi),
                         IsWs(s[(lo + hi) \div 2]) /\ IsWs(s[(lo + hi) \div 2 + 1]))

\* String.prototype.split(/\s+/): "" gives [""], " a" gives ["", "a"].
split(s) == SplitRange(s, 1, Len(s))

\* Array.prototype.join(' ') of words[lo..hi], by halving.
RECURSIVE JoinRange(_, _, _)
JoinRange(words, lo, hi) ==
    IF hi < lo THEN <<>>
    ELSE IF lo = hi THEN words[lo]
         ELSE JoinRange(words, lo, (lo + hi) \div 2) \o <<" ">>
              \o JoinRange(words, (lo + hi) \div 2 + 1, hi)

join(words) == JoinRange(words, 1, Len(words))

\* String.prototype.trim(): the string without its leading and trailing whitespace.
trim(s) ==
    IF \A i \in 1..Len(s) : IsWs(s[i]) THEN <<>>
    ELSE SubSeq(s,
                CHOOSE i \in 1..Len(s) :
                    ~IsWs(s[i]) /\ \A j \in 1..(i - 1) : IsWs(s[j]),
                CHOOSE i \in 1..Len(s) :
                    ~IsWs(s[i]) /\ \A j \in (i + 1)..Len(s) : IsWs(s[j]))

(***************************************************************************)
(* chunkText                                                               *)
(***************************************************************************)

DefaultChunkSize == 500

DefaultOverlap == 100

\* The loop without the test chunk.trim().length > 0: every chunk is pushed.
RECURSIVE chunkLoopKeepsBlank(_, _, _, _)
chunkLoopKeepsBlank(words, i, chunkSize, overlap) ==
    IF ~(i < Len(words)) THEN <<>>
    ELSE << join(slice(words, i, i + chunkSize)) >>
         \o (IF i + chunkSize >= Len(words) THEN <<>>
             ELSE chunkLoopKeepsBlank(words, i + (chunkSize - overlap), chunkSize, overlap))

\* The for loop of chunkText from index i on (i is 0-based, as in the source).
RECURSIVE chunkLoop(_, _, _, _)
chunkLoop(words, i, chunkSize, overlap) ==
    IF ~(i < Len(words)) THEN <<>>
    ELSE (IF Len(trim(join(slice(words, i, i + chunkSize)))) > 0
          THEN << join(slice(words, i, i + chunkSize)) >>
          ELSE <<>>)
         \o (IF i + chunkSize >= Len(words) THEN <<>>
             ELSE chunkLoop(words, i + (chunkSize - overlap), chunkSize, overlap))

chunkText(t, chunkSize, overlap) == chunkLoop(split(t), 0, chunkSize, overlap)

\* chunkText called with the defaults, its loop not followed step by step;
\* iterations counts the passes through the loop's body.
NotLooping ==
    [ i |-> 0, chunkSize |-> DefaultChunkSize, overlap |-> DefaultOverlap,
      iterations |-> 0 ]

(***************************************************************************)
(* scoreChunk                                                              *)
(***************************************************************************)

\* The lower case of the code units that have one of one code unit (the
\* simple lower-case mappings of the Unicode character database, version 17
\* as the engine has it), as <<character, lower case>>.  Σ (U+03A3) and
\* U+0130 are in lowerOf.
LowerCasePairs ==
    { <<"A", "a">>, <<"B", "b">>, <<"C", "c">>, <<"D", "d">>, <<"E", "e">>,
      <<"F", "f">>, <<"G", "g">>, <<"H", "h">>, <<"I", "i">>, <<"J", "j">>,
      <<"K", "k">>, <<"L", "l">>, <<"M", "m">>, <<"N", "n">>, <<"O", "o">>,
      <<"P", "p">>, <<"Q", "q">>, <<"R", "r">>, <<"S", "s">>, <<"T", "t">>,
      <<"U", "u">>, <<"V", "v">>, <<"W", "w">>, <<"X", "x">>, <<"Y", "y">>,
      <<"Z", "z">>, <<"À", "à">>, <<"Á", "á">>, <<"Â", "â">>, <<"Ã", "ã">>,
      <<"Ä", "ä">>, <<"Å", "å">>, <<"Æ", "æ">>, <<"Ç", "ç">>, <<"È", "è">>,
      <<"É", "é">>, <<"Ê", "ê">>, <<"Ë", "ë">>, <<"Ì", "ì">>, <<"Í", "í">>,
      <<"Î", "î">>, <<"Ï", "ï">>, <<"Ð", "ð">>, <<"Ñ", "ñ">>, <<"Ò", "ò">>,
      <<"Ó", "ó">>, <<"Ô", "ô">>, <<"Õ", "õ">>, <<"Ö", "ö">>, <<"Ø", "ø">>,
      <<"Ù", "ù">>, <<"Ú", "ú">>, <<"Û", "û">>, <<"Ü", "ü">>, <<"Ý", "ý">>,
      <<"Þ", "þ">>, <<"U+0100", "U+0101">>, <<"U+0102", "U+0103">>,
      <<"U+0104", "U+0105">>, <<"U+0106", "U+0107">>, <<"U+0108", "U+0109">>,
      <<"U+010A", "U+010B">>, <<"U+010C", "U+010D">>, <<"U+010E", "U+010F">>,
      <<"U+0110", "U+0111">>, <<"U+0112", "U+0113">>, <<"U+0114", "U+0115">>,
      <<"U+0116", "U+0117">>, <<"U+0118", "U+0119">>, <<"U+011A", "U+011B">>,
      <<"U+011C", "U+011D">>, <<"U+011E", "U+011F">>, <<"U+0120", "U+0121">>,
      <<"U+0122", "U+0123">>, <<"U+0124", "U+0125">>, <<"U+0126", "U+0127">>,
      <<"U+0128", "U+0129">>, <<"U+012A", "U+012B">>, <<"U+012C", "U+012D">>,
      <<"U+012E", "U+012F">>, <<"U+0132", "U+0133">>, <<"U+0134", "U+0135">>,
      <<"U+0136", "U+0137">>, <<"U+0139", "U+013A">>, <<"U+013B", "U+013C">>,
      <<"U+013D", "U+013E">>, <<"U+013F", "U+0140">>, <<"U+0141", "U+0142">>,
      <<"U+0143", "U+0144">>, <<"U+0145", "U+0146">>, <<"U+0147", "U+0148">>,
      <<"U+014A", "U+014B">>, <<"U+014C", "U+014D">>, <<"U+014E", "U+014F">>,
      <<"U+0150", "U+0151">>, <<"U+0152", "U+0153">>, <<"U+0154", "U+0155">>,
      <<"U+0156", "U+0157">>, <<"U+0158", "U+0159">>, <<"U+015A", "U+015B">>,
      <<"U+015C", "U+015D">>, <<"U+015E", "U+015F">>, <<"U+0160", "U+0161">>,
      <<"U+0162", "U+0163">>, <<"U+0164", "U+0165">>, <<"U+0166", "U+0167">>,
      <<"U+0168", "U+0169">>, <<"U+016A", "U+016B">>, <<"U+016C", "U+016D">>,
      <<"U+016E", "U+016F">>, <<"U+0170", "U+0171">>, <<"U+0172", "U+0173">>,
      <<"U+0174", "U+0175">>, <<"U+0176", "U+0177">>, <<"U+0178", "ÿ">>,
      <<"U+0179", "U+017A">>, <<"U+017B", "U+017C">>, <<"U+017D", "U+017E">>,
      <<"Ɓ", "U+0253">>, <<"Ƃ", "ƃ">>, <<"Ƅ", "ƅ">>, <<"Ɔ", "U+0254">>,
      <<"Ƈ", "ƈ">>, <<"Ɖ", "U+0256">>, <<"Ɗ", "U+0257">>, <<"Ƌ", "ƌ">>,
      <<"Ǝ", "ǝ">>, <<"Ə", "U+0259">>, <<"Ɛ", "U+025B">>, <<"Ƒ", "ƒ">>,
      <<"Ɠ", "U+0260">>, <<"Ɣ", "U+0263">>, <<"Ɩ", "U+0269">>,
      <<"Ɨ", "U+0268">>, <<"Ƙ", "ƙ">>, <<"Ɯ", "U+026F">>, <<"Ɲ", "U+0272">>,
      <<"Ɵ", "U+0275">>, <<"Ơ", "ơ">>, <<"Ƣ", "ƣ">>, <<"Ƥ", "ƥ">>,
      <<"Ʀ", "ʀ">>, <<"Ƨ", "ƨ">>, <<"Ʃ", "ʃ">>, <<"Ƭ", "ƭ">>, <<"Ʈ", "ʈ">>,
      <<"Ư", "ư">>, <<"Ʊ", "ʊ">>, <<"Ʋ", "ʋ">>, <<"Ƴ", "ƴ">>, <<"Ƶ", "ƶ">>,
      <<"Ʒ", "ʒ">>, <<"Ƹ", "ƹ">>, <<"Ƽ", "ƽ">>, <<"Ǆ", "ǆ">>, <<"ǅ", "ǆ">>,
      <<"Ǉ", "ǉ">>, <<"ǈ", "ǉ">>, <<"Ǌ", "ǌ">>, <<"ǋ", "ǌ">>, <<"Ǎ", "ǎ">>,
      <<"Ǐ", "ǐ">>, <<"Ǒ", "ǒ">>, <<"Ǔ", "ǔ">>, <<"Ǖ", "ǖ">>, <<"Ǘ", "ǘ">>,
      <<"Ǚ", "ǚ">>, <<"Ǜ", "ǜ">>, <<"Ǟ", "ǟ">>, <<"Ǡ", "ǡ">>, <<"Ǣ", "ǣ">>,
      <<"Ǥ", "ǥ">>, <<"Ǧ", "ǧ">>, <<"Ǩ", "ǩ">>, <<"Ǫ", "ǫ">>, <<"Ǭ", "ǭ">>,
      <<"Ǯ", "ǯ">>, <<"Ǳ", "ǳ">>, <<"ǲ", "ǳ">>, <<"Ǵ", "ǵ">>, <<"Ƕ", "ƕ">>,
      <<"Ƿ", "ƿ">>, <<"Ǹ", "ǹ">>, <<"Ǻ", "ǻ">>, <<"Ǽ", "ǽ">>, <<"Ǿ", "ǿ">>,
      <<"U+0200", "U+0201">>, <<"U+0202", "U+0203">>, <<"U+0204", "U+0205">>,
      <<"U+0206", "U+0207">>, <<"U+0208", "U+0209">>, <<"U+020A", "U+020B">>,
      <<"U+020C", "U+020D">>, <<"U+020E", "U+020F">>, <<"U+0210", "U+0211">>,
      <<"U+0212", "U+0213">>, <<"U+0214", "U+0215">>, <<"U+0216", "U+0217">>,
      <<"U+0218", "U+0219">>, <<"U+021A", "U+021B">>, <<"U+021C", "U+021D">>,
      <<"U+021E", "U+021F">>, <<"U+0220", "ƞ">>, <<"U+0222", "U+0223">>,
      <<"U+0224", "U+0225">>, <<"U+0226", "U+0227">>, <<"U+0228", "U+0229">>,
      <<"U+022A", "U+022B">>, <<"U+022C", "U+022D">>, <<"U+022E", "U+022F">>,
      <<"U+0230", "U+0231">>, <<"U+0232", "U+0233">>, <<"U+023A", "U+2C65">>,
      <<"U+023B", "U+023C">>, <<"U+023D", "ƚ">>, <<"U+023E", "U+2C66">>,
      <<"U+0241", "U+0242">>, <<"U+0243", "ƀ">>, <<"U+0244", "ʉ">>,
      <<"U+0245", "ʌ">>, <<"U+0246", "U+0247">>, <<"U+0248", "U+0249">>,
      <<"U+024A", "U+024B">>, <<"U+024C", "U+024D">>, <<"U+024E", "U+024F">>,
      <<"U+0370", "U+0371">>, <<"U+0372", "U+0373">>, <<"U+0376", "U+0377">>,
      <<"U+037F", "ϳ">>, <<"Ά", "ά">>, <<"Έ", "έ">>, <<"Ή", "ή">>,
      <<"Ί", "ί">>, <<"Ό", "ό">>, <<"Ύ", "ύ">>, <<"Ώ", "ώ">>, <<"Α", "α">>,
      <<"Β", "β">>, <<"Γ", "γ">>, <<"Δ", "δ">>, <<"Ε", "ε">>, <<"Ζ", "ζ">>,
      <<"Η", "η">>, <<"Θ", "θ">>, <<"Ι", "ι">>, <<"Κ", "κ">>, <<"Λ", "λ">>,
      <<"Μ", "μ">>, <<"Ν", "ν">>, <<"Ξ", "ξ">>, <<"Ο", "ο">>, <<"Π", "π">>,
      <<"Ρ", "ρ">>, <<"Τ", "τ">>, <<"Υ", "υ">>, <<"Φ", "φ">>, <<"Χ", "χ">>,
      <<"Ψ", "ψ">>, <<"Ω", "ω">>, <<"Ϊ", "ϊ">>, <<"Ϋ", "ϋ">>, <<"Ϗ", "ϗ">>,
      <<"Ϙ", "ϙ">>, <<"Ϛ", "ϛ">>, <<"Ϝ", "ϝ">>, <<"Ϟ", "ϟ">>, <<"Ϡ", "ϡ">>,
      <<"Ϣ", "ϣ">>, <<"Ϥ", "ϥ">>, <<"Ϧ", "ϧ">>, <<"Ϩ", "ϩ">>, <<"Ϫ", "ϫ">>,
      <<"Ϭ", "ϭ">>, <<"Ϯ", "ϯ">>, <<"ϴ", "θ">>, <<"Ϸ", "ϸ">>, <<"Ϲ", "ϲ">>,
      <<"Ϻ", "ϻ">>, <<"Ͻ", "U+037B">>, <<"Ͼ", "U+037C">>, <<"Ͽ", "U+037D">>,
      <<"U+0400", "U+0450">>, <<"U+0401", "U+0451">>, <<"U+0402", "U+0452">>,
      <<"U+0403", "U+0453">>, <<"U+0404", "U+0454">>, <<"U+0405", "U+0455">>,
      <<"U+0406", "U+0456">>, <<"U+0407", "U+0457">>, <<"U+0408", "U+0458">>,
      <<"U+0409", "U+0459">>, <<"U+040A", "U+045A">>, <<"U+040B", "U+045B">>,
      <<"U+040C", "U+045C">>, <<"U+040D", "U+045D">>, <<"U+040E", "U+045E">>,
      <<"U+040F", "U+045F">>, <<"U+0410", "U+0430">>, <<"U+0411", "U+0431">>,
      <<"U+0412", "U+0432">>, <<"U+0413", "U+0433">>, <<"U+0414", "U+0434">>,
      <<"U+0415", "U+0435">>, <<"U+0416", "U+0436">>, <<"U+0417", "U+0437">>,
      <<"U+0418", "U+0438">>, <<"U+0419", "U+0439">>, <<"U+041A", "U+043A">>,
      <<"U+041B", "U+043B">>, <<"U+041C", "U+043C">>, <<"U+041D", "U+043D">>,
      <<"U+041E", "U+043E">>, <<"U+041F", "U+043F">>, <<"U+0420", "U+0440">>,
      <<"U+0421", "U+0441">>, <<"U+0422", "U+0442">>, <<"U+0423", "U+0443">>,
      <<"U+0424", "U+0444">>, <<"U+0425", "U+0445">>, <<"U+0426", "U+0446">>,
      <<"U+0427", "U+0447">>, <<"U+0428", "U+0448">>, <<"U+0429", "U+0449">>,
      <<"U+042A", "U+044A">>, <<"U+042B", "U+044B">>, <<"U+042C", "U+044C">>,
      <<"U+042D", "U+044D">>, <<"U+042E", "U+044E">>, <<"U+042F", "U+044F">>,
      <<"U+0460", "U+0461">>, <<"U+0462", "U+0463">>, <<"U+0464", "U+0465">>,
      <<"U+0466", "U+0467">>, <<"U+0468", "U+0469">>, <<"U+046A", "U+046B">>,
      <<"U+046C", "U+046D">>, <<"U+046E", "U+046F">>, <<"U+0470", "U+0471">>,
      <<"U+0472", "U+0473">>, <<"U+0474", "U+0475">>, <<"U+0476", "U+0477">>,
      <<"U+0478", "U+0479">>, <<"U+047A", "U+047B">>, <<"U+047C", "U+047D">>,
      <<"U+047E", "U+047F">>, <<"Ҁ", "ҁ">>, <<"Ҋ", "ҋ">>, <<"Ҍ", "ҍ">>,
      <<"Ҏ", "ҏ">>, <<"Ґ", "ґ">>, <<"Ғ", "ғ">>, <<"Ҕ", "ҕ">>, <<"Җ", "җ">>,
      <<"Ҙ", "ҙ">>, <<"Қ", "қ">>, <<"Ҝ", "ҝ">>, <<"Ҟ", "ҟ">>, <<"Ҡ", "ҡ">>,
      <<"Ң", "ң">>, <<"Ҥ", "ҥ">>, <<"Ҧ", "ҧ">>, <<"Ҩ", "ҩ">>, <<"Ҫ", "ҫ">>,
      <<"Ҭ", "ҭ">>, <<"Ү", "ү">>, <<"Ұ", "ұ">>, <<"Ҳ", "ҳ">>, <<"Ҵ", "ҵ">>,
      <<"Ҷ", "ҷ">>, <<"Ҹ", "ҹ">>, <<"Һ", "һ">>, <<"Ҽ", "ҽ">>, <<"Ҿ", "ҿ">>,
      <<"Ӏ", "ӏ">>, <<"Ӂ", "ӂ">>, <<"Ӄ", "ӄ">>, <<"Ӆ", "ӆ">>, <<"Ӈ", "ӈ">>,
      <<"Ӊ", "ӊ">>, <<"Ӌ", "ӌ">>, <<"Ӎ", "ӎ">>, <<"Ӑ", "ӑ">>, <<"Ӓ", "ӓ">>,
      <<"Ӕ", "ӕ">>, <<"Ӗ", "ӗ">>, <<"Ә", "ә">>, <<"Ӛ", "ӛ">>, <<"Ӝ", "ӝ">>,
      <<"Ӟ", "ӟ">>, <<"Ӡ", "ӡ">>, <<"Ӣ", "ӣ">>, <<"Ӥ", "ӥ">>, <<"Ӧ", "ӧ">>,
      <<"Ө", "ө">>, <<"Ӫ", "ӫ">>, <<"Ӭ", "ӭ">>, <<"Ӯ", "ӯ">>, <<"Ӱ", "ӱ">>,
      <<"Ӳ", "ӳ">>, <<"Ӵ", "ӵ">>, <<"Ӷ", "ӷ">>, <<"Ӹ", "ӹ">>, <<"Ӻ", "ӻ">>,
      <<"Ӽ", "ӽ">>, <<"Ӿ", "ӿ">>, <<"U+0500", "U+0501">>,
      <<"U+0502", "U+0503">>, <<"U+0504", "U+0505">>, <<"U+0506", "U+0507">>,
      <<"U+0508", "U+0509">>, <<"U+050A", "U+050B">>, <<"U+050C", "U+050D">>,
      <<"U+050E", "U+050F">>, <<"U+0510", "U+0511">>, <<"U+0512", "U+0513">>,
      <<"U+0514", "U+0515">>, <<"U+0516", "U+0517">>, <<"U+0518", "U+0519">>,
      <<"U+051A", "U+051B">>, <<"U+051C", "U+051D">>, <<"U+051E", "U+051F">>,
      <<"U+0520", "U+0521">>, <<"U+0522", "U+0523">>, <<"U+0524", "U+0525">>,
      <<"U+0526", "U+0527">>, <<"U+0528", "U+0529">>, <<"U+052A", "U+052B">>,
      <<"U+052C", "U+052D">>, <<"U+052E", "U+052F">>, <<"U+0531", "U+0561">>,
      <<"U+0532", "U+0562">>, <<"U+0533", "U+0563">>, <<"U+0534", "U+0564">>,
      <<"U+0535", "U+0565">>, <<"U+0536", "U+0566">>, <<"U+0537", "U+0567">>,
      <<"U+0538", "U+0568">>, <<"U+0539", "U+0569">>, <<"U+053A", "U+056A">>,
      <<"U+053B", "U+056B">>, <<"U+053C", "U+056C">>, <<"U+053D", "U+056D">>,
      <<"U+053E", "U+056E">>, <<"U+053F", "U+056F">>, <<"U+0540", "U+0570">>,
      <<"U+0541", "U+0571">>, <<"U+0542", "U+0572">>, <<"U+0543", "U+0573">>,
      <<"U+0544", "U+0574">>, <<"U+0545", "U+0575">>, <<"U+0546", "U+0576">>,
      <<"U+0547", "U+0577">>, <<"U+0548", "U+0578">>, <<"U+0549", "U+0579">>,
      <<"U+054A", "U+057A">>, <<"U+054B", "U+057B">>, <<"U+054C", "U+057C">>,
      <<"U+054D", "U+057D">>, <<"U+054E", "U+057E">>, <<"U+054F", "U+057F">>,
      <<"U+0550", "ր">>, <<"U+0551", "ց">>, <<"U+0552", "ւ">>,
      <<"U+0553", "փ">>, <<"U+0554", "ք">>, <<"U+0555", "օ">>,
      <<"U+0556", "ֆ">>, <<"Ⴀ", "U+2D00">>, <<"Ⴁ", "U+2D01">>,
      <<"Ⴂ", "U+2D02">>, <<"Ⴃ", "U+2D03">>, <<"Ⴄ", "U+2D04">>,
      <<"Ⴅ", "U+2D05">>, <<"Ⴆ", "U+2D06">>, <<"Ⴇ", "U+2D07">>,
      <<"Ⴈ", "U+2D08">>, <<"Ⴉ", "U+2D09">>, <<"Ⴊ", "U+2D0A">>,
      <<"Ⴋ", "U+2D0B">>, <<"Ⴌ", "U+2D0C">>, <<"Ⴍ", "U+2D0D">>,
      <<"Ⴎ", "U+2D0E">>, <<"Ⴏ", "U+2D0F">>, <<"Ⴐ", "U+2D10">>,
      <<"Ⴑ", "U+2D11">>, <<"Ⴒ", "U+2D12">>, <<"Ⴓ", "U+2D13">>,
      <<"Ⴔ", "U+2D14">>, <<"Ⴕ", "U+2D15">>, <<"Ⴖ", "U+2D16">>,
      <<"Ⴗ", "U+2D17">>, <<"Ⴘ", "U+2D18">>, <<"Ⴙ", "U+2D19">>,
      <<"Ⴚ", "U+2D1A">>, <<"Ⴛ", "U+2D1B">>, <<"Ⴜ", "U+2D1C">>,
      <<"Ⴝ", "U+2D1D">>, <<"Ⴞ", "U+2D1E">>, <<"Ⴟ", "U+2D1F">>,
      <<"Ⴠ", "U+2D20">>, <<"Ⴡ", "U+2D21">>, <<"Ⴢ", "U+2D22">>,
      <<"Ⴣ", "U+2D23">>, <<"Ⴤ", "U+2D24">>, <<"Ⴥ", "U+2D25">>,
      <<"Ⴧ", "U+2D27">>, <<"Ⴭ", "U+2D2D">>, <<"Ꭰ", "U+AB70">>,
      <<"Ꭱ", "U+AB71">>, <<"Ꭲ", "U+AB72">>, <<"Ꭳ", "U+AB73">>,
      <<"Ꭴ", "U+AB74">>, <<"Ꭵ", "U+AB75">>, <<"Ꭶ", "U+AB76">>,
      <<"Ꭷ", "U+AB77">>, <<"Ꭸ", "U+AB78">>, <<"Ꭹ", "U+AB79">>,
      <<"Ꭺ", "U+AB7A">>, <<"Ꭻ", "U+AB7B">>, <<"Ꭼ", "U+AB7C">>,
      <<"Ꭽ", "U+AB7D">>, <<"Ꭾ", "U+AB7E">>, <<"Ꭿ", "U+AB7F">>, <<"Ꮀ", "ꮀ">>,
      <<"Ꮁ", "ꮁ">>, <<"Ꮂ", "ꮂ">>, <<"Ꮃ", "ꮃ">>, <<"Ꮄ", "ꮄ">>, <<"Ꮅ", "ꮅ">>,
      <<"Ꮆ", "ꮆ">>, <<"Ꮇ", "ꮇ">>, <<"Ꮈ", "ꮈ">>, <<"Ꮉ", "ꮉ">>, <<"Ꮊ", "ꮊ">>,
      <<"Ꮋ", "ꮋ">>, <<"Ꮌ", "ꮌ">>, <<"Ꮍ", "ꮍ">>, <<"Ꮎ", "ꮎ">>, <<"Ꮏ", "ꮏ">>,
      <<"Ꮐ", "ꮐ">>, <<"Ꮑ", "ꮑ">>, <<"Ꮒ", "ꮒ">>, <<"Ꮓ", "ꮓ">>, <<"Ꮔ", "ꮔ">>,
      <<"Ꮕ", "ꮕ">>, <<"Ꮖ", "ꮖ">>, <<"Ꮗ", "ꮗ">>, <<"Ꮘ", "ꮘ">>, <<"Ꮙ", "ꮙ">>,
      <<"Ꮚ", "ꮚ">>, <<"Ꮛ", "ꮛ">>, <<"Ꮜ", "ꮜ">>, <<"Ꮝ", "ꮝ">>, <<"Ꮞ", "ꮞ">>,
      <<"Ꮟ", "ꮟ">>, <<"Ꮠ", "ꮠ">>, <<"Ꮡ", "ꮡ">>, <<"Ꮢ", "ꮢ">>, <<"Ꮣ", "ꮣ">>,
      <<"Ꮤ", "ꮤ">>, <<"Ꮥ", "ꮥ">>, <<"Ꮦ", "ꮦ">>, <<"Ꮧ", "ꮧ">>, <<"Ꮨ", "ꮨ">>,
      <<"Ꮩ", "ꮩ">>, <<"Ꮪ", "ꮪ">>, <<"Ꮫ", "ꮫ">>, <<"Ꮬ", "ꮬ">>, <<"Ꮭ", "ꮭ">>,
      <<"Ꮮ", "ꮮ">>, <<"Ꮯ", "ꮯ">>, <<"Ꮰ", "ꮰ">>, <<"Ꮱ", "ꮱ">>, <<"Ꮲ", "ꮲ">>,
      <<"Ꮳ", "ꮳ">>, <<"Ꮴ", "ꮴ">>, <<"Ꮵ", "ꮵ">>, <<"Ꮶ", "ꮶ">>, <<"Ꮷ", "ꮷ">>,
      <<"Ꮸ", "ꮸ">>, <<"Ꮹ", "ꮹ">>, <<"Ꮺ", "ꮺ">>, <<"Ꮻ", "ꮻ">>, <<"Ꮼ", "ꮼ">>,
      <<"Ꮽ", "ꮽ">>, <<"Ꮾ", "ꮾ">>, <<"Ꮿ", "ꮿ">>, <<"Ᏸ", "ᏸ">>, <<"Ᏹ", "ᏹ">>,
      <<"Ᏺ", "ᏺ">>, <<"Ᏻ", "ᏻ">>, <<"Ᏼ", "ᏼ">>, <<"Ᏽ", "ᏽ">>, <<"Ᲊ", "ᲊ">>,
      <<"Ა", "ა">>, <<"Ბ", "ბ">>, <<"Გ", "გ">>, <<"Დ", "დ">>, <<"Ე", "ე">>,
      <<"Ვ", "ვ">>, <<"Ზ", "ზ">>, <<"Თ", "თ">>, <<"Ი", "ი">>, <<"Კ", "კ">>,
      <<"Ლ", "ლ">>, <<"Მ", "მ">>, <<"Ნ", "ნ">>, <<"Ო", "ო">>, <<"Პ", "პ">>,
      <<"Ჟ", "ჟ">>, <<"Რ", "რ">>, <<"Ს", "ს">>, <<"Ტ", "ტ">>, <<"Უ", "უ">>,
      <<"Ფ", "ფ">>, <<"Ქ", "ქ">>, <<"Ღ", "ღ">>, <<"Ყ", "ყ">>, <<"Შ", "შ">>,
      <<"Ჩ", "ჩ">>, <<"Ც", "ც">>, <<"Ძ", "ძ">>, <<"Წ", "წ">>, <<"Ჭ", "ჭ">>,
      <<"Ხ", "ხ">>, <<"Ჯ", "ჯ">>, <<"Ჰ", "ჰ">>, <<"Ჱ", "ჱ">>, <<"Ჲ", "ჲ">>,
      <<"Ჳ", "ჳ">>, <<"Ჴ", "ჴ">>, <<"Ჵ", "ჵ">>, <<"Ჶ", "ჶ">>, <<"Ჷ", "ჷ">>,
      <<"Ჸ", "ჸ">>, <<"Ჹ", "ჹ">>, <<"Ჺ", "ჺ">>, <<"Ჽ", "ჽ">>, <<"Ჾ", "ჾ">>,
      <<"Ჿ", "ჿ">>, <<"U+1E00", "U+1E01">>, <<"U+1E02", "U+1E03">>,
      <<"U+1E04", "U+1E05">>, <<"U+1E06", "U+1E07">>, <<"U+1E08", "U+1E09">>,
      <<"U+1E0A", "U+1E0B">>, <<"U+1E0C", "U+1E0D">>, <<"U+1E0E", "U+1E0F">>,
      <<"U+1E10", "U+1E11">>, <<"U+1E12", "U+1E13">>, <<"U+1E14", "U+1E15">>,
      <<"U+1E16", "U+1E17">>, <<"U+1E18", "U+1E19">>, <<"U+1E1A", "U+1E1B">>,
      <<"U+1E1C", "U+1E1D">>, <<"U+1E1E", "U+1E1F">>, <<"U+1E20", "U+1E21">>,
      <<"U+1E22", "U+1E23">>, <<"U+1E24", "U+1E25">>, <<"U+1E26", "U+1E27">>,
      <<"U+1E28", "U+1E29">>, <<"U+1E2A", "U+1E2B">>, <<"U+1E2C", "U+1E2D">>,
      <<"U+1E2E", "U+1E2F">>, <<"U+1E30", "U+1E31">>, <<"U+1E32", "U+1E33">>,
      <<"U+1E34", "U+1E35">>, <<"U+1E36", "U+1E37">>, <<"U+1E38", "U+1E39">>,
      <<"U+1E3A", "U+1E3B">>, <<"U+1E3C", "U+1E3D">>, <<"U+1E3E", "U+1E3F">>,
      <<"U+1E40", "U+1E41">>, <<"U+1E42", "U+1E43">>, <<"U+1E44", "U+1E45">>,
      <<"U+1E46", "U+1E47">>, <<"U+1E48", "U+1E49">>, <<"U+1E4A", "U+1E4B">>,
      <<"U+1E4C", "U+1E4D">>, <<"U+1E4E", "U+1E4F">>, <<"U+1E50", "U+1E51">>,
      <<"U+1E52", "U+1E53">>, <<"U+1E54", "U+1E55">>, <<"U+1E56", "U+1E57">>,
      <<"U+1E58", "U+1E59">>, <<"U+1E5A", "U+1E5B">>, <<"U+1E5C", "U+1E5D">>,
      <<"U+1E5E", "U+1E5F">>, <<"U+1E60", "U+1E61">>, <<"U+1E62", "U+1E63">>,
      <<"U+1E64", "U+1E65">>, <<"U+1E66", "U+1E67">>, <<"U+1E68", "U+1E69">>,
      <<"U+1E6A", "U+1E6B">>, <<"U+1E6C", "U+1E6D">>, <<"U+1E6E", "U+1E6F">>,
      <<"U+1E70", "U+1E71">>, <<"U+1E72", "U+1E73">>, <<"U+1E74", "U+1E75">>,
      <<"U+1E76", "U+1E77">>, <<"U+1E78", "U+1E79">>, <<"U+1E7A", "U+1E7B">>,
      <<"U+1E7C", "U+1E7D">>, <<"U+1E7E", "U+1E7F">>, <<"Ẁ", "ẁ">>,
      <<"Ẃ", "ẃ">>, <<"Ẅ", "ẅ">>, <<"Ẇ", "ẇ">>, <<"Ẉ", "ẉ">>, <<"Ẋ", "ẋ">>,
      <<"Ẍ", "ẍ">>, <<"Ẏ", "ẏ">>, <<"Ẑ", "ẑ">>, <<"Ẓ", "ẓ">>, <<"Ẕ", "ẕ">>,
      <<"ẞ", "ß">>, <<"Ạ", "ạ">>, <<"Ả", "ả">>, <<"Ấ", "ấ">>, <<"Ầ", "ầ">>,
      <<"Ẩ", "ẩ">>, <<"Ẫ", "ẫ">>, <<"Ậ", "ậ">>, <<"Ắ", "ắ">>, <<"Ằ", "ằ">>,
      <<"Ẳ", "ẳ">>, <<"Ẵ", "ẵ">>, <<"Ặ", "ặ">>, <<"Ẹ", "ẹ">>, <<"Ẻ", "ẻ">>,
      <<"Ẽ", "ẽ">>, <<"Ế", "ế">>, <<"Ề", "ề">>, <<"Ể", "ể">>, <<"Ễ", "ễ">>,
      <<"Ệ", "ệ">>, <<"Ỉ", "ỉ">>, <<"Ị", "ị">>, <<"Ọ", "ọ">>, <<"Ỏ", "ỏ">>,
      <<"Ố", "ố">>, <<"Ồ", "ồ">>, <<"Ổ", "ổ">>, <<"Ỗ", "ỗ">>, <<"Ộ", "ộ">>,
      <<"Ớ", "ớ">>, <<"Ờ", "ờ">>, <<"Ở", "ở">>, <<"Ỡ", "ỡ">>, <<"Ợ", "ợ">>,
      <<"Ụ", "ụ">>, <<"Ủ", "ủ">>, <<"Ứ", "ứ">>, <<"Ừ", "ừ">>, <<"Ử", "ử">>,
      <<"Ữ", "ữ">>, <<"Ự", "ự">>, <<"Ỳ", "ỳ">>, <<"Ỵ", "ỵ">>, <<"Ỷ", "ỷ">>,
      <<"Ỹ", "ỹ">>, <<"Ỻ", "ỻ">>, <<"Ỽ", "ỽ">>, <<"Ỿ", "ỿ">>,
      <<"U+1F08", "U+1F00">>, <<"U+1F09", "U+1F01">>, <<"U+1F0A", "U+1F02">>,
      <<"U+1F0B", "U+1F03">>, <<"U+1F0C", "U+1F04">>, <<"U+1F0D", "U+1F05">>,
      <<"U+1F0E", "U+1F06">>, <<"U+1F0F", "U+1F07">>, <<"U+1F18", "U+1F10">>,
      <<"U+1F19", "U+1F11">>, <<"U+1F1A", "U+1F12">>, <<"U+1F1B", "U+1F13">>,
      <<"U+1F1C", "U+1F14">>, <<"U+1F1D", "U+1F15">>, <<"U+1F28", "U+1F20">>,
      <<"U+1F29", "U+1F21">>, <<"U+1F2A", "U+1F22">>, <<"U+1F2B", "U+1F23">>,
      <<"U+1F2C", "U+1F24">>, <<"U+1F2D", "U+1F25">>, <<"U+1F2E", "U+1F26">>,
      <<"U+1F2F", "U+1F27">>, <<"U+1F38", "U+1F30">>, <<"U+1F39", "U+1F31">>,
      <<"U+1F3A", "U+1F32">>, <<"U+1F3B", "U+1F33">>, <<"U+1F3C", "U+1F34">>,
      <<"U+1F3D", "U+1F35">>, <<"U+1F3E", "U+1F36">>, <<"U+1F3F", "U+1F37">>,
      <<"U+1F48", "U+1F40">>, <<"U+1F49", "U+1F41">>, <<"U+1F4A", "U+1F42">>,
      <<"U+1F4B", "U+1F43">>, <<"U+1F4C", "U+1F44">>, <<"U+1F4D", "U+1F45">>,
      <<"U+1F59", "U+1F51">>, <<"U+1F5B", "U+1F53">>, <<"U+1F5D", "U+1F55">>,
      <<"U+1F5F", "U+1F57">>, <<"U+1F68", "U+1F60">>, <<"U+1F69", "U+1F61">>,
      <<"U+1F6A", "U+1F62">>, <<"U+1F6B", "U+1F63">>, <<"U+1F6C", "U+1F64">>,
      <<"U+1F6D", "U+1F65">>, <<"U+1F6E", "U+1F66">>, <<"U+1F6F", "U+1F67">>,
      <<"ᾈ", "ᾀ">>, <<"ᾉ", "ᾁ">>, <<"ᾊ", "ᾂ">>, <<"ᾋ", "ᾃ">>, <<"ᾌ", "ᾄ">>,
      <<"ᾍ", "ᾅ">>, <<"ᾎ", "ᾆ">>, <<"ᾏ", "ᾇ">>, <<"ᾘ", "ᾐ">>, <<"ᾙ", "ᾑ">>,
      <<"ᾚ", "ᾒ">>, <<"ᾛ", "ᾓ">>, <<"ᾜ", "ᾔ">>, <<"ᾝ", "ᾕ">>, <<"ᾞ", "ᾖ">>,
      <<"ᾟ", "ᾗ">>, <<"ᾨ", "ᾠ">>, <<"ᾩ", "ᾡ">>, <<"ᾪ", "ᾢ">>, <<"ᾫ", "ᾣ">>,
      <<"ᾬ", "ᾤ">>, <<"ᾭ", "ᾥ">>, <<"ᾮ", "ᾦ">>, <<"ᾯ", "ᾧ">>, <<"Ᾰ", "ᾰ">>,
      <<"Ᾱ", "ᾱ">>, <<"Ὰ", "U+1F70">>, <<"Ά", "U+1F71">>, <<"ᾼ", "ᾳ">>,
      <<"Ὲ", "U+1F72">>, <<"Έ", "U+1F73">>, <<"Ὴ", "U+1F74">>,
      <<"Ή", "U+1F75">>, <<"ῌ", "ῃ">>, <<"Ῐ", "ῐ">>, <<"Ῑ", "ῑ">>,
      <<"Ὶ", "U+1F76">>, <<"Ί", "U+1F77">>, <<"Ῠ", "ῠ">>, <<"Ῡ", "ῡ">>,
      <<"Ὺ", "U+1F7A">>, <<"Ύ", "U+1F7B">>, <<"Ῥ", "ῥ">>, <<"Ὸ", "U+1F78">>,
      <<"Ό", "U+1F79">>, <<"Ὼ", "U+1F7C">>, <<"Ώ", "U+1F7D">>, <<"ῼ", "ῳ">>,
      <<"U+2126", "ω">>, <<"U+212A", "k">>, <<"U+212B", "å">>,
      <<"U+2132", "U+214E">>, <<"U+2160", "U+2170">>, <<"U+2161", "U+2171">>,
      <<"U+2162", "U+2172">>, <<"U+2163", "U+2173">>, <<"U+2164", "U+2174">>,
      <<"U+2165", "U+2175">>, <<"U+2166", "U+2176">>, <<"U+2167", "U+2177">>,
      <<"U+2168", "U+2178">>, <<"U+2169", "U+2179">>, <<"U+216A", "U+217A">>,
      <<"U+216B", "U+217B">>, <<"U+216C", "U+217C">>, <<"U+216D", "U+217D">>,
      <<"U+216E", "U+217E">>, <<"U+216F", "U+217F">>, <<"Ↄ", "ↄ">>,
      <<"Ⓐ", "ⓐ">>, <<"Ⓑ", "ⓑ">>, <<"Ⓒ", "ⓒ">>, <<"Ⓓ", "ⓓ">>, <<"Ⓔ", "ⓔ">>,
      <<"Ⓕ", "ⓕ">>, <<"Ⓖ", "ⓖ">>, <<"Ⓗ", "ⓗ">>, <<"Ⓘ", "ⓘ">>, <<"Ⓙ", "ⓙ">>,
      <<"Ⓚ", "ⓚ">>, <<"Ⓛ", "ⓛ">>, <<"Ⓜ", "ⓜ">>, <<"Ⓝ", "ⓝ">>, <<"Ⓞ", "ⓞ">>,
      <<"Ⓟ", "ⓟ">>, <<"Ⓠ", "ⓠ">>, <<"Ⓡ", "ⓡ">>, <<"Ⓢ", "ⓢ">>, <<"Ⓣ", "ⓣ">>,
      <<"Ⓤ", "ⓤ">>, <<"Ⓥ", "ⓥ">>, <<"Ⓦ", "ⓦ">>, <<"Ⓧ", "ⓧ">>, <<"Ⓨ", "ⓨ">>,
      <<"Ⓩ", "ⓩ">>, <<"U+2C00", "U+2C30">>, <<"U+2C01", "U+2C31">>,
      <<"U+2C02", "U+2C32">>, <<"U+2C03", "U+2C33">>, <<"U+2C04", "U+2C34">>,
      <<"U+2C05", "U+2C35">>, <<"U+2C06", "U+2C36">>, <<"U+2C07", "U+2C37">>,
      <<"U+2C08", "U+2C38">>, <<"U+2C09", "U+2C39">>, <<"U+2C0A", "U+2C3A">>,
      <<"U+2C0B", "U+2C3B">>, <<"U+2C0C", "U+2C3C">>, <<"U+2C0D", "U+2C3D">>,
      <<"U+2C0E", "U+2C3E">>, <<"U+2C0F", "U+2C3F">>, <<"U+2C10", "U+2C40">>,
      <<"U+2C11", "U+2C41">>, <<"U+2C12", "U+2C42">>, <<"U+2C13", "U+2C43">>,
      <<"U+2C14", "U+2C44">>, <<"U+2C15", "U+2C45">>, <<"U+2C16", "U+2C46">>,
      <<"U+2C17", "U+2C47">>, <<"U+2C18", "U+2C48">>, <<"U+2C19", "U+2C49">>,
      <<"U+2C1A", "U+2C4A">>, <<"U+2C1B", "U+2C4B">>, <<"U+2C1C", "U+2C4C">>,
      <<"U+2C1D", "U+2C4D">>, <<"U+2C1E", "U+2C4E">>, <<"U+2C1F", "U+2C4F">>,
      <<"U+2C20", "U+2C50">>, <<"U+2C21", "U+2C51">>, <<"U+2C22", "U+2C52">>,
      <<"U+2C23", "U+2C53">>, <<"U+2C24", "U+2C54">>, <<"U+2C25", "U+2C55">>,
      <<"U+2C26", "U+2C56">>, <<"U+2C27", "U+2C57">>, <<"U+2C28", "U+2C58">>,
      <<"U+2C29", "U+2C59">>, <<"U+2C2A", "U+2C5A">>, <<"U+2C2B", "U+2C5B">>,
      <<"U+2C2C", "U+2C5C">>, <<"U+2C2D", "U+2C5D">>, <<"U+2C2E", "U+2C5E">>,
      <<"U+2C2F", "U+2C5F">>, <<"U+2C60", "U+2C61">>, <<"U+2C62", "U+026B">>,
      <<"U+2C63", "U+1D7D">>, <<"U+2C64", "U+027D">>, <<"U+2C67", "U+2C68">>,
      <<"U+2C69", "U+2C6A">>, <<"U+2C6B", "U+2C6C">>, <<"U+2C6D", "U+0251">>,
      <<"U+2C6E", "U+0271">>, <<"U+2C6F", "U+0250">>, <<"U+2C70", "U+0252">>,
      <<"U+2C72", "U+2C73">>, <<"U+2C75", "U+2C76">>, <<"U+2C7E", "U+023F">>,
      <<"U+2C7F", "U+0240">>, <<"Ⲁ", "ⲁ">>, <<"Ⲃ", "ⲃ">>, <<"Ⲅ", "ⲅ">>,
      <<"Ⲇ", "ⲇ">>, <<"Ⲉ", "ⲉ">>, <<"Ⲋ", "ⲋ">>, <<"Ⲍ", "ⲍ">>, <<"Ⲏ", "ⲏ">>,
      <<"Ⲑ", "ⲑ">>, <<"Ⲓ", "ⲓ">>, <<"Ⲕ", "ⲕ">>, <<"Ⲗ", "ⲗ">>, <<"Ⲙ", "ⲙ">>,
      <<"Ⲛ", "ⲛ">>, <<"Ⲝ", "ⲝ">>, <<"Ⲟ", "ⲟ">>, <<"Ⲡ", "ⲡ">>, <<"Ⲣ", "ⲣ">>,
      <<"Ⲥ", "ⲥ">>, <<"Ⲧ", "ⲧ">>, <<"Ⲩ", "ⲩ">>, <<"Ⲫ", "ⲫ">>, <<"Ⲭ", "ⲭ">>,
      <<"Ⲯ", "ⲯ">>, <<"Ⲱ", "ⲱ">>, <<"Ⲳ", "ⲳ">>, <<"Ⲵ", "ⲵ">>, <<"Ⲷ", "ⲷ">>,
      <<"Ⲹ", "ⲹ">>, <<"Ⲻ", "ⲻ">>, <<"Ⲽ", "ⲽ">>, <<"Ⲿ", "ⲿ">>, <<"Ⳁ", "ⳁ">>,
      <<"Ⳃ", "ⳃ">>, <<"Ⳅ", "ⳅ">>, <<"Ⳇ", "ⳇ">>, <<"Ⳉ", "ⳉ">>, <<"Ⳋ", "ⳋ">>,
      <<"Ⳍ", "ⳍ">>, <<"Ⳏ", "ⳏ">>, <<"Ⳑ", "ⳑ">>, <<"Ⳓ", "ⳓ">>, <<"Ⳕ", "ⳕ">>,
      <<"Ⳗ", "ⳗ">>, <<"Ⳙ", "ⳙ">>, <<"Ⳛ", "ⳛ">>, <<"Ⳝ", "ⳝ">>, <<"Ⳟ", "ⳟ">>,
      <<"Ⳡ", "ⳡ">>, <<"Ⳣ", "ⳣ">>, <<"Ⳬ", "ⳬ">>, <<"Ⳮ", "ⳮ">>, <<"Ⳳ", "ⳳ">>,
      <<"U+A640", "U+A641">>, <<"U+A642", "U+A643">>, <<"U+A644", "U+A645">>,
      <<"U+A646", "U+A647">>, <<"U+A648", "U+A649">>, <<"U+A64A", "U+A64B">>,
      <<"U+A64C", "U+A64D">>, <<"U+A64E", "U+A64F">>, <<"U+A650", "U+A651">>,
      <<"U+A652", "U+A653">>, <<"U+A654", "U+A655">>, <<"U+A656", "U+A657">>,
      <<"U+A658", "U+A659">>, <<"U+A65A", "U+A65B">>, <<"U+A65C", "U+A65D">>,
      <<"U+A65E", "U+A65F">>, <<"U+A660", "U+A661">>, <<"U+A662", "U+A663">>,
      <<"U+A664", "U+A665">>, <<"U+A666", "U+A667">>, <<"U+A668", "U+A669">>,
      <<"U+A66A", "U+A66B">>, <<"U+A66C", "U+A66D">>, <<"Ꚁ", "ꚁ">>,
      <<"Ꚃ", "ꚃ">>, <<"Ꚅ", "ꚅ">>, <<"Ꚇ", "ꚇ">>, <<"Ꚉ", "ꚉ">>, <<"Ꚋ", "ꚋ">>,
      <<"Ꚍ", "ꚍ">>, <<"Ꚏ", "ꚏ">>, <<"Ꚑ", "ꚑ">>, <<"Ꚓ", "ꚓ">>, <<"Ꚕ", "ꚕ">>,
      <<"Ꚗ", "ꚗ">>, <<"Ꚙ", "ꚙ">>, <<"Ꚛ", "ꚛ">>, <<"U+A722", "U+A723">>,
      <<"U+A724", "U+A725">>, <<"U+A726", "U+A727">>, <<"U+A728", "U+A729">>,
      <<"U+A72A", "U+A72B">>, <<"U+A72C", "U+A72D">>, <<"U+A72E", "U+A72F">>,
      <<"U+A732", "U+A733">>, <<"U+A734", "U+A735">>, <<"U+A736", "U+A737">>,
      <<"U+A738", "U+A739">>, <<"U+A73A", "U+A73B">>, <<"U+A73C", "U+A73D">>,
      <<"U+A73E", "U+A73F">>, <<"U+A740", "U+A741">>, <<"U+A742", "U+A743">>,
      <<"U+A744", "U+A745">>, <<"U+A746", "U+A747">>, <<"U+A748", "U+A749">>,
      <<"U+A74A", "U+A74B">>, <<"U+A74C", "U+A74D">>, <<"U+A74E", "U+A74F">>,
      <<"U+A750", "U+A751">>, <<"U+A752", "U+A753">>, <<"U+A754", "U+A755">>,
      <<"U+A756", "U+A757">>, <<"U+A758", "U+A759">>, <<"U+A75A", "U+A75B">>,
      <<"U+A75C", "U+A75D">>, <<"U+A75E", "U+A75F">>, <<"U+A760", "U+A761">>,
      <<"U+A762", "U+A763">>, <<"U+A764", "U+A765">>, <<"U+A766", "U+A767">>,
      <<"U+A768", "U+A769">>, <<"U+A76A", "U+A76B">>, <<"U+A76C", "U+A76D">>,
      <<"U+A76E", "U+A76F">>, <<"U+A779", "U+A77A">>, <<"U+A77B", "U+A77C">>,
      <<"U+A77D", "U+1D79">>, <<"U+A77E", "U+A77F">>, <<"Ꞁ", "ꞁ">>,
      <<"Ꞃ", "ꞃ">>, <<"Ꞅ", "ꞅ">>, <<"Ꞇ", "ꞇ">>, <<"Ꞌ", "ꞌ">>,
      <<"Ɥ", "U+0265">>, <<"Ꞑ", "ꞑ">>, <<"Ꞓ", "ꞓ">>, <<"Ꞗ", "ꞗ">>,
      <<"Ꞙ", "ꞙ">>, <<"Ꞛ", "ꞛ">>, <<"Ꞝ", "ꞝ">>, <<"Ꞟ", "ꞟ">>, <<"Ꞡ", "ꞡ">>,
      <<"Ꞣ", "ꞣ">>, <<"Ꞥ", "ꞥ">>, <<"Ꞧ", "ꞧ">>, <<"Ꞩ", "ꞩ">>,
      <<"Ɦ", "U+0266">>, <<"Ɜ", "U+025C">>, <<"Ɡ", "U+0261">>,
      <<"Ɬ", "U+026C">>, <<"Ɪ", "U+026A">>, <<"Ʞ", "ʞ">>, <<"Ʇ", "ʇ">>,
      <<"Ʝ", "ʝ">>, <<"Ꭓ", "U+AB53">>, <<"Ꞵ", "ꞵ">>, <<"Ꞷ", "ꞷ">>,
      <<"Ꞹ", "ꞹ">>, <<"Ꞻ", "ꞻ">>, <<"Ꞽ", "ꞽ">>, <<"Ꞿ", "ꞿ">>, <<"Ꟁ", "ꟁ">>,
      <<"Ꟃ", "ꟃ">>, <<"Ꞔ", "ꞔ">>, <<"Ʂ", "ʂ">>, <<"Ᶎ", "ᶎ">>, <<"Ꟈ", "ꟈ">>,
      <<"Ꟊ", "ꟊ">>, <<"Ɤ", "U+0264">>, <<"Ꟍ", "ꟍ">>, <<"꟎", "꟏">>,
      <<"Ꟑ", "ꟑ">>, <<"꟒", "ꟓ">>, <<"꟔", "ꟕ">>, <<"Ꟗ", "ꟗ">>, <<"Ꟙ", "ꟙ">>,
      <<"Ꟛ", "ꟛ">>, <<"Ƛ", "ƛ">>, <<"Ꟶ", "ꟶ">>, <<"U+FF21", "U+FF41">>,
      <<"U+FF22", "U+FF42">>, <<"U+FF23", "U+FF43">>, <<"U+FF24", "U+FF44">>,
      <<"U+FF25", "U+FF45">>, <<"U+FF26", "U+FF46">>, <<"U+FF27", "U+FF47">>,
      <<"U+FF28", "U+FF48">>, <<"U+FF29", "U+FF49">>, <<"U+FF2A", "U+FF4A">>,
      <<"U+FF2B", "U+FF4B">>, <<"U+FF2C", "U+FF4C">>, <<"U+FF2D", "U+FF4D">>,
      <<"U+FF2E", "U+FF4E">>, <<"U+FF2F", "U+FF4F">>, <<"U+FF30", "U+FF50">>,
      <<"U+FF31", "U+FF51">>, <<"U+FF32", "U+FF52">>, <<"U+FF33", "U+FF53">>,
      <<"U+FF34", "U+FF54">>, <<"U+FF35", "U+FF55">>, <<"U+FF36", "U+FF56">>,
      <<"U+FF37", "U+FF57">>, <<"U+FF38", "U+FF58">>, <<"U+FF39", "U+FF59">>,
      <<"U+FF3A", "U+FF5A">> }

UpperToLower ==
    [ c \in { p[1] : p \in LowerCasePairs } |->
        (CHOOSE p \in LowerCasePairs : p[1] = c)[2] ]

toLowerChar(c) == IF c \in DOMAIN UpperToLower THEN UpperToLower[c] ELSE c

\* The cased letters that are not case-ignorable (properties Cased and
\* Case_Ignorable of the Unicode character database).
CasedLetters ==
    { "A", "B", "C", "D", "E", "F", "G", "H", "I", "J", "K", "L", "M", "N",
      "O", "P", "Q", "R", "S", "T", "U", "V", "W", "X", "Y", "Z", "a", "b",
      "c", "d", "e", "f", "g", "h", "i", "j", "k", "l", "m", "n", "o", "p",
      "q", "r", "s", "t", "u", "v", "w", "x", "y", "z", "ª", "µ", "º", "À",
      "Á", "Â", "Ã", "Ä", "Å", "Æ", "Ç", "È", "É", "Ê", "Ë", "Ì", "Í", "Î",
      "Ï", "Ð", "Ñ", "Ò", "Ó", "Ô", "Õ", "Ö", "Ø", "Ù", "Ú", "Û", "Ü", "Ý",
      "Þ", "ß", "à", "á", "â", "ã", "ä", "å", "æ", "ç", "è", "é", "ê", "ë",
      "ì", "í", "î", "ï", "ð", "ñ", "ò", "ó", "ô", "õ", "ö", "ø", "ù", "ú",
      "û", "ü", "ý", "þ", "ÿ", "U+0100", "U+0101", "U+0102", "U+0103",
      "U+0104", "U+0105", "U+0106", "U+0107", "U+0108", "U+0109", "U+010A",
      "U+010B", "U+010C", "U+010D", "U+010E", "U+010F", "U+0110", "U+0111",
      "U+0112", "U+0113", "U+0114", "U+0115", "U+0116", "U+0117", "U+0118",
      "U+0119", "U+011A", "U+011B", "U+011C", "U+011D", "U+011E", "U+011F",
      "U+0120", "U+0121", "U+0122", "U+0123", "U+0124", "U+0125", "U+0126",
      "U+0127", "U+0128", "U+0129", "U+012A", "U+012B", "U+012C", "U+012D",
      "U+012E", "U+012F", "U+0130", "U+0131", "U+0132", "U+0133", "U+0134",
      "U+0135", "U+0136", "U+0137", "U+0138", "U+0139", "U+013A", "U+013B",
      "U+013C", "U+013D", "U+013E", "U+013F", "U+0140", "U+0141", "U+0142",
      "U+0143", "U+0144", "U+0145", "U+0146", "U+0147", "U+0148", "U+0149",
      "U+014A", "U+014B", "U+014C", "U+014D", "U+014E", "U+014F", "U+0150",
      "U+0151", "U+0152", "U+0153", "U+0154", "U+0155", "U+0156", "U+0157",
      "U+0158", "U+0159", "U+015A", "U+015B", "U+015C", "U+015D", "U+015E",
      "U+015F", "U+0160", "U+0161", "U+0162", "U+0163", "U+0164", "U+0165",
      "U+0166", "U+0167", "U+0168", "U+0169", "U+016A", "U+016B", "U+016C",
      "U+016D", "U+016E", "U+016F", "U+0170", "U+0171", "U+0172", "U+0173",
      "U+0174", "U+0175", "U+0176", "U+0177", "U+0178", "U+0179", "U+017A",
      "U+017B", "U+017C", "U+017D", "U+017E", "U+017F", "ƀ", "Ɓ", "Ƃ", "ƃ",
      "Ƅ", "ƅ", "Ɔ", "Ƈ", "ƈ", "Ɖ", "Ɗ", "Ƌ", "ƌ", "ƍ", "Ǝ", "Ə", "Ɛ", "Ƒ",
      "ƒ", "Ɠ", "Ɣ", "ƕ", "Ɩ", "Ɨ", "Ƙ", "ƙ", "ƚ", "ƛ", "Ɯ", "Ɲ", "ƞ", "Ɵ",
      "Ơ", "ơ", "Ƣ", "ƣ", "Ƥ", "ƥ", "Ʀ", "Ƨ", "ƨ", "Ʃ", "ƪ", "ƫ", "Ƭ", "ƭ",
      "Ʈ", "Ư", "ư", "Ʊ", "Ʋ", "Ƴ", "ƴ", "Ƶ", "ƶ", "Ʒ", "Ƹ", "ƹ", "ƺ", "Ƽ",
      "ƽ", "ƾ", "ƿ", "Ǆ", "ǅ", "ǆ", "Ǉ", "ǈ", "ǉ", "Ǌ", "ǋ", "ǌ", "Ǎ", "ǎ",
      "Ǐ", "ǐ", "Ǒ", "ǒ", "Ǔ", "ǔ", "Ǖ", "ǖ", "Ǘ", "ǘ", "Ǚ", "ǚ", "Ǜ", "ǜ",
      "ǝ", "Ǟ", "ǟ", "Ǡ", "ǡ", "Ǣ", "ǣ", "Ǥ", "ǥ", "Ǧ", "ǧ", "Ǩ", "ǩ", "Ǫ",
      "ǫ", "Ǭ", "ǭ", "Ǯ", "ǯ", "ǰ", "Ǳ", "ǲ", "ǳ", "Ǵ", "ǵ", "Ƕ", "Ƿ", "Ǹ",
      "ǹ", "Ǻ", "ǻ", "Ǽ", "ǽ", "Ǿ", "ǿ", "U+0200", "U+0201", "U+0202",
      "U+0203", "U+0204", "U+0205", "U+0206", "U+0207", "U+0208", "U+0209",
      "U+020A", "U+020B", "U+020C", "U+020D", "U+020E", "U+020F", "U+0210",
      "U+0211", "U+0212", "U+0213", "U+0214", "U+0215", "U+0216", "U+0217",
      "U+0218", "U+0219", "U+021A", "U+021B", "U+021C", "U+021D", "U+021E",
      "U+021F", "U+0220", "U+0221", "U+0222", "U+0223", "U+0224", "U+0225",
      "U+0226", "U+0227", "U+0228", "U+0229", "U+022A", "U+022B", "U+022C",
      "U+022D", "U+022E", "U+022F", "U+0230", "U+0231", "U+0232", "U+0233",
      "U+0234", "U+0235", "U+0236", "U+0237", "U+0238", "U+0239", "U+023A",
      "U+023B", "U+023C", "U+023D", "U+023E", "U+023F", "U+0240", "U+0241",
      "U+0242", "U+0243", "U+0244", "U+0245", "U+0246", "U+0247", "U+0248",
      "U+0249", "U+024A", "U+024B", "U+024C", "U+024D", "U+024E", "U+024F",
      "U+0250", "U+0251", "U+0252", "U+0253", "U+0254", "U+0255", "U+0256",
      "U+0257", "U+0258", "U+0259", "U+025A", "U+025B", "U+025C", "U+025D",
      "U+025E", "U+025F", "U+0260", "U+0261", "U+0262", "U+0263", "U+0264",
      "U+0265", "U+0266", "U+0267", "U+0268", "U+0269", "U+026A", "U+026B",
      "U+026C", "U+026D", "U+026E", "U+026F", "U+0270", "U+0271", "U+0272",
      "U+0273", "U+0274", "U+0275", "U+0276", "U+0277", "U+0278", "U+0279",
      "U+027A", "U+027B", "U+027C", "U+027D", "U+027E", "U+027F", "ʀ", "ʁ",
      "ʂ", "ʃ", "ʄ", "ʅ", "ʆ", "ʇ", "ʈ", "ʉ", "ʊ", "ʋ", "ʌ", "ʍ", "ʎ", "ʏ",
      "ʐ", "ʑ", "ʒ", "ʓ", "ʖ", "ʗ", "ʘ", "ʙ", "ʚ", "ʛ", "ʜ", "ʝ", "ʞ", "ʟ",
      "ʠ", "ʡ", "ʢ", "ʣ", "ʤ", "ʥ", "ʦ", "ʧ", "ʨ", "ʩ", "ʪ", "ʫ", "ʬ", "ʭ",
      "ʮ", "ʯ", "U+0370", "U+0371", "U+0372", "U+0373", "U+0376", "U+0377",
      "U+037B", "U+037C", "U+037D", "U+037F", "Ά", "Έ", "Ή", "Ί", "Ό", "Ύ",
      "Ώ", "ΐ", "Α", "Β", "Γ", "Δ", "Ε", "Ζ", "Η", "Θ", "Ι", "Κ", "Λ", "Μ",
      "Ν", "Ξ", "Ο", "Π", "Ρ", "Σ", "Τ", "Υ", "Φ", "Χ", "Ψ", "Ω", "Ϊ", "Ϋ",
      "ά", "έ", "ή", "ί", "ΰ", "α", "β", "γ", "δ", "ε", "ζ", "η", "θ", "ι",
      "κ", "λ", "μ", "ν", "ξ", "ο", "π", "ρ", "ς", "σ", "τ", "υ", "φ", "χ",
      "ψ", "ω", "ϊ", "ϋ", "ό", "ύ", "ώ", "Ϗ", "ϐ", "ϑ", "ϒ", "ϓ", "ϔ", "ϕ",
      "ϖ", "ϗ", "Ϙ", "ϙ", "Ϛ", "ϛ", "Ϝ", "ϝ", "Ϟ", "ϟ", "Ϡ", "ϡ", "Ϣ", "ϣ",
      "Ϥ", "ϥ", "Ϧ", "ϧ", "Ϩ", "ϩ", "Ϫ", "ϫ", "Ϭ", "ϭ", "Ϯ", "ϯ", "ϰ", "ϱ",
      "ϲ", "ϳ", "ϴ", "ϵ", "Ϸ", "ϸ", "Ϲ", "Ϻ", "ϻ", "ϼ", "Ͻ", "Ͼ", "Ͽ",
      "U+0400", "U+0401", "U+0402", "U+0403", "U+0404", "U+0405", "U+0406",
      "U+0407", "U+0408", "U+0409", "U+040A", "U+040B", "U+040C", "U+040D",
      "U+040E", "U+040F", "U+0410", "U+0411", "U+0412", "U+0413", "U+0414",
      "U+0415", "U+0416", "U+0417", "U+0418", "U+0419", "U+041A", "U+041B",
      "U+041C", "U+041D", "U+041E", "U+041F", "U+0420", "U+0421", "U+0422",
      "U+0423", "U+0424", "U+0425", "U+0426", "U+0427", "U+0428", "U+0429",
      "U+042A", "U+042B", "U+042C", "U+042D", "U+042E", "U+042F", "U+0430",
      "U+0431", "U+0432", "U+0433", "U+0434", "U+0435", "U+0436", "U+0437",
      "U+0438", "U+0439", "U+043A", "U+043B", "U+043C", "U+043D", "U+043E",
      "U+043F", "U+0440", "U+0441", "U+0442", "U+0443", "U+0444", "U+0445",
      "U+0446", "U+0447", "U+0448", "U+0449", "U+044A", "U+044B", "U+044C",
      "U+044D", "U+044E", "U+044F", "U+0450", "U+0451", "U+0452", "U+0453",
      "U+0454", "U+0455", "U+0456", "U+0457", "U+0458", "U+0459", "U+045A",
      "U+045B", "U+045C", "U+045D", "U+045E", "U+045F", "U+0460", "U+0461",
      "U+0462", "U+0463", "U+0464", "U+0465", "U+0466", "U+0467", "U+0468",
      "U+0469", "U+046A", "U+046B", "U+046C", "U+046D", "U+046E", "U+046F",
      "U+0470", "U+0471", "U+0472", "U+0473", "U+0474", "U+0475", "U+0476",
      "U+0477", "U+0478", "U+0479", "U+047A", "U+047B", "U+047C", "U+047D",
      "U+047E", "U+047F", "Ҁ", "ҁ", "Ҋ", "ҋ", "Ҍ", "ҍ", "Ҏ", "ҏ", "Ґ", "ґ",
      "Ғ", "ғ", "Ҕ", "ҕ", "Җ", "җ", "Ҙ", "ҙ", "Қ", "қ", "Ҝ", "ҝ", "Ҟ", "ҟ",
      "Ҡ", "ҡ", "Ң", "ң", "Ҥ", "ҥ", "Ҧ", "ҧ", "Ҩ", "ҩ", "Ҫ", "ҫ", "Ҭ", "ҭ",
      "Ү", "ү", "Ұ", "ұ", "Ҳ", "ҳ", "Ҵ", "ҵ", "Ҷ", "ҷ", "Ҹ", "ҹ", "Һ", "һ",
      "Ҽ", "ҽ", "Ҿ", "ҿ", "Ӏ", "Ӂ", "ӂ", "Ӄ", "ӄ", "Ӆ", "ӆ", "Ӈ", "ӈ", "Ӊ",
      "ӊ", "Ӌ", "ӌ", "Ӎ", "ӎ", "ӏ", "Ӑ", "ӑ", "Ӓ", "ӓ", "Ӕ", "ӕ", "Ӗ", "ӗ",
      "Ә", "ә", "Ӛ", "ӛ", "Ӝ", "ӝ", "Ӟ", "ӟ", "Ӡ", "ӡ", "Ӣ", "ӣ", "Ӥ", "ӥ",
      "Ӧ", "ӧ", "Ө", "ө", "Ӫ", "ӫ", "Ӭ", "ӭ", "Ӯ", "ӯ", "Ӱ", "ӱ", "Ӳ", "ӳ",
      "Ӵ", "ӵ", "Ӷ", "ӷ", "Ӹ", "ӹ", "Ӻ", "ӻ", "Ӽ", "ӽ", "Ӿ", "ӿ", "U+0500",
      "U+0501", "U+0502", "U+0503", "U+0504", "U+0505", "U+0506", "U+0507",
      "U+0508", "U+0509", "U+050A", "U+050B", "U+050C", "U+050D", "U+050E",
      "U+050F", "U+0510", "U+0511", "U+0512", "U+0513", "U+0514", "U+0515",
      "U+0516", "U+0517", "U+0518", "U+0519", "U+051A", "U+051B", "U+051C",
      "U+051D", "U+051E", "U+051F", "U+0520", "U+0521", "U+0522", "U+0523",
      "U+0524", "U+0525", "U+0526", "U+0527", "U+0528", "U+0529", "U+052A",
      "U+052B", "U+052C", "U+052D", "U+052E", "U+052F", "U+0531", "U+0532",
      "U+0533", "U+0534", "U+0535", "U+0536", "U+0537", "U+0538", "U+0539",
      "U+053A", "U+053B", "U+053C", "U+053D", "U+053E", "U+053F", "U+0540",
      "U+0541", "U+0542", "U+0543", "U+0544", "U+0545", "U+0546", "U+0547",
      "U+0548", "U+0549", "U+054A", "U+054B", "U+054C", "U+054D", "U+054E",
      "U+054F", "U+0550", "U+0551", "U+0552", "U+0553", "U+0554", "U+0555",
      "U+0556", "U+0560", "U+0561", "U+0562", "U+0563", "U+0564", "U+0565",
      "U+0566", "U+0567", "U+0568", "U+0569", "U+056A", "U+056B", "U+056C",
      "U+056D", "U+056E", "U+056F", "U+0570", "U+0571", "U+0572", "U+0573",
      "U+0574", "U+0575", "U+0576", "U+0577", "U+0578", "U+0579", "U+057A",
      "U+057B", "U+057C", "U+057D", "U+057E", "U+057F", "ր", "ց", "ւ", "փ",
      "ք", "օ", "ֆ", "և", "ֈ", "Ⴀ", "Ⴁ", "Ⴂ", "Ⴃ", "Ⴄ", "Ⴅ", "Ⴆ", "Ⴇ", "Ⴈ",
      "Ⴉ", "Ⴊ", "Ⴋ", "Ⴌ", "Ⴍ", "Ⴎ", "Ⴏ", "Ⴐ", "Ⴑ", "Ⴒ", "Ⴓ", "Ⴔ", "Ⴕ", "Ⴖ",
      "Ⴗ", "Ⴘ", "Ⴙ", "Ⴚ", "Ⴛ", "Ⴜ", "Ⴝ", "Ⴞ", "Ⴟ", "Ⴠ", "Ⴡ", "Ⴢ", "Ⴣ", "Ⴤ",
      "Ⴥ", "Ⴧ", "Ⴭ", "ა", "ბ", "გ", "დ", "ე", "ვ", "ზ", "თ", "ი", "კ", "ლ",
      "მ", "ნ", "ო", "პ", "ჟ", "რ", "ს", "ტ", "უ", "ფ", "ქ", "ღ", "ყ", "შ",
      "ჩ", "ც", "ძ", "წ", "ჭ", "ხ", "ჯ", "ჰ", "ჱ", "ჲ", "ჳ", "ჴ", "ჵ", "ჶ",
      "ჷ", "ჸ", "ჹ", "ჺ", "ჽ", "ჾ", "ჿ", "Ꭰ", "Ꭱ", "Ꭲ", "Ꭳ", "Ꭴ", "Ꭵ", "Ꭶ",
      "Ꭷ", "Ꭸ", "Ꭹ", "Ꭺ", "Ꭻ", "Ꭼ", "Ꭽ", "Ꭾ", "Ꭿ", "Ꮀ", "Ꮁ", "Ꮂ", "Ꮃ", "Ꮄ",
      "Ꮅ", "Ꮆ", "Ꮇ", "Ꮈ", "Ꮉ", "Ꮊ", "Ꮋ", "Ꮌ", "Ꮍ", "Ꮎ", "Ꮏ", "Ꮐ", "Ꮑ", "Ꮒ",
      "Ꮓ", "Ꮔ", "Ꮕ", "Ꮖ", "Ꮗ", "Ꮘ", "Ꮙ", "Ꮚ", "Ꮛ", "Ꮜ", "Ꮝ", "Ꮞ", "Ꮟ", "Ꮠ",
      "Ꮡ", "Ꮢ", "Ꮣ", "Ꮤ", "Ꮥ", "Ꮦ", "Ꮧ", "Ꮨ", "Ꮩ", "Ꮪ", "Ꮫ", "Ꮬ", "Ꮭ", "Ꮮ",
      "Ꮯ", "Ꮰ", "Ꮱ", "Ꮲ", "Ꮳ", "Ꮴ", "Ꮵ", "Ꮶ", "Ꮷ", "Ꮸ", "Ꮹ", "Ꮺ", "Ꮻ", "Ꮼ",
      "Ꮽ", "Ꮾ", "Ꮿ", "Ᏸ", "Ᏹ", "Ᏺ", "Ᏻ", "Ᏼ", "Ᏽ", "ᏸ", "ᏹ", "ᏺ", "ᏻ", "ᏼ",
      "ᏽ", "ᲀ", "ᲁ", "ᲂ", "ᲃ", "ᲄ", "ᲅ", "ᲆ", "ᲇ", "ᲈ", "Ᲊ", "ᲊ", "Ა", "Ბ",
      "Გ", "Დ", "Ე", "Ვ", "Ზ", "Თ", "Ი", "Კ", "Ლ", "Მ", "Ნ", "Ო", "Პ", "Ჟ",
      "Რ", "Ს", "Ტ", "Უ", "Ფ", "Ქ", "Ღ", "Ყ", "Შ", "Ჩ", "Ც", "Ძ", "Წ", "Ჭ",
      "Ხ", "Ჯ", "Ჰ", "Ჱ", "Ჲ", "Ჳ", "Ჴ", "Ჵ", "Ჶ", "Ჷ", "Ჸ", "Ჹ", "Ჺ", "Ჽ",
      "Ჾ", "Ჿ", "U+1D00", "U+1D01", "U+1D02", "U+1D03", "U+1D04", "U+1D05",
      "U+1D06", "U+1D07", "U+1D08", "U+1D09", "U+1D0A", "U+1D0B", "U+1D0C",
      "U+1D0D", "U+1D0E", "U+1D0F", "U+1D10", "U+1D11", "U+1D12", "U+1D13",
      "U+1D14", "U+1D15", "U+1D16", "U+1D17", "U+1D18", "U+1D19", "U+1D1A",
      "U+1D1B", "U+1D1C", "U+1D1D", "U+1D1E", "U+1D1F", "U+1D20", "U+1D21",
      "U+1D22", "U+1D23", "U+1D24", "U+1D25", "U+1D26", "U+1D27", "U+1D28",
      "U+1D29", "U+1D2A", "U+1D2B", "U+1D6B", "U+1D6C", "U+1D6D", "U+1D6E",
      "U+1D6F", "U+1D70", "U+1D71", "U+1D72", "U+1D73", "U+1D74", "U+1D75",
      "U+1D76", "U+1D77", "U+1D79", "U+1D7A", "U+1D7B", "U+1D7C", "U+1D7D",
      "U+1D7E", "U+1D7F", "ᶀ", "ᶁ", "ᶂ", "ᶃ", "ᶄ", "ᶅ", "ᶆ", "ᶇ", "ᶈ", "ᶉ",
      "ᶊ", "ᶋ", "ᶌ", "ᶍ", "ᶎ", "ᶏ", "ᶐ", "ᶑ", "ᶒ", "ᶓ", "ᶔ", "ᶕ", "ᶖ", "ᶗ",
      "ᶘ", "ᶙ", "ᶚ", "U+1E00", "U+1E01", "U+1E02", "U+1E03", "U+1E04",
      "U+1E05", "U+1E06", "U+1E07", "U+1E08", "U+1E09", "U+1E0A", "U+1E0B",
      "U+1E0C", "U+1E0D", "U+1E0E", "U+1E0F", "U+1E10", "U+1E11", "U+1E12",
      "U+1E13", "U+1E14", "U+1E15", "U+1E16", "U+1E17", "U+1E18", "U+1E19",
      "U+1E1A", "U+1E1B", "U+1E1C", "U+1E1D", "U+1E1E", "U+1E1F", "U+1E20",
      "U+1E21", "U+1E22", "U+1E23", "U+1E24", "U+1E25", "U+1E26", "U+1E27",
      "U+1E28", "U+1E29", "U+1E2A", "U+1E2B", "U+1E2C", "U+1E2D", "U+1E2E",
      "U+1E2F", "U+1E30", "U+1E31", "U+1E32", "U+1E33", "U+1E34", "U+1E35",
      "U+1E36", "U+1E37", "U+1E38", "U+1E39", "U+1E3A", "U+1E3B", "U+1E3C",
      "U+1E3D", "U+1E3E", "U+1E3F", "U+1E40", "U+1E41", "U+1E42", "U+1E43",
      "U+1E44", "U+1E45", "U+1E46", "U+1E47", "U+1E48", "U+1E49", "U+1E4A",
      "U+1E4B", "U+1E4C", "U+1E4D", "U+1E4E", "U+1E4F", "U+1E50", "U+1E51",
      "U+1E52", "U+1E53", "U+1E54", "U+1E55", "U+1E56", "U+1E57", "U+1E58",
      "U+1E59", "U+1E5A", "U+1E5B", "U+1E5C", "U+1E5D", "U+1E5E", "U+1E5F",
      "U+1E60", "U+1E61", "U+1E62", "U+1E63", "U+1E64", "U+1E65", "U+1E66",
      "U+1E67", "U+1E68", "U+1E69", "U+1E6A", "U+1E6B", "U+1E6C", "U+1E6D",
      "U+1E6E", "U+1E6F", "U+1E70", "U+1E71", "U+1E72", "U+1E73", "U+1E74",
      "U+1E75", "U+1E76", "U+1E77", "U+1E78", "U+1E79", "U+1E7A", "U+1E7B",
      "U+1E7C", "U+1E7D", "U+1E7E", "U+1E7F", "Ẁ", "ẁ", "Ẃ", "ẃ", "Ẅ", "ẅ",
      "Ẇ", "ẇ", "Ẉ", "ẉ", "Ẋ", "ẋ", "Ẍ", "ẍ", "Ẏ", "ẏ", "Ẑ", "ẑ", "Ẓ", "ẓ",
      "Ẕ", "ẕ", "ẖ", "ẗ", "ẘ", "ẙ", "ẚ", "ẛ", "ẜ", "ẝ", "ẞ", "ẟ", "Ạ", "ạ",
      "Ả", "ả", "Ấ", "ấ", "Ầ", "ầ", "Ẩ", "ẩ", "Ẫ", "ẫ", "Ậ", "ậ", "Ắ", "ắ",
      "Ằ", "ằ", "Ẳ", "ẳ", "Ẵ", "ẵ", "Ặ", "ặ", "Ẹ", "ẹ", "Ẻ", "ẻ", "Ẽ", "ẽ",
      "Ế", "ế", "Ề", "ề", "Ể", "ể", "Ễ", "ễ", "Ệ", "ệ", "Ỉ", "ỉ", "Ị", "ị",
      "Ọ", "ọ", "Ỏ", "ỏ", "Ố", "ố", "Ồ", "ồ", "Ổ", "ổ", "Ỗ", "ỗ", "Ộ", "ộ",
      "Ớ", "ớ", "Ờ", "ờ", "Ở", "ở", "Ỡ", "ỡ", "Ợ", "ợ", "Ụ", "ụ", "Ủ", "ủ",
      "Ứ", "ứ", "Ừ", "ừ", "Ử", "ử", "Ữ", "ữ", "Ự", "ự", "Ỳ", "ỳ", "Ỵ", "ỵ",
      "Ỷ", "ỷ", "Ỹ", "ỹ", "Ỻ", "ỻ", "Ỽ", "ỽ", "Ỿ", "ỿ", "U+1F00", "U+1F01",
      "U+1F02", "U+1F03", "U+1F04", "U+1F05", "U+1F06", "U+1F07", "U+1F08",
      "U+1F09", "U+1F0A", "U+1F0B", "U+1F0C", "U+1F0D", "U+1F0E", "U+1F0F",
      "U+1F10", "U+1F11", "U+1F12", "U+1F13", "U+1F14", "U+1F15", "U+1F18",
      "U+1F19", "U+1F1A", "U+1F1B", "U+1F1C", "U+1F1D", "U+1F20", "U+1F21",
      "U+1F22", "U+1F23", "U+1F24", "U+1F25", "U+1F26", "U+1F27", "U+1F28",
      "U+1F29", "U+1F2A", "U+1F2B", "U+1F2C", "U+1F2D", "U+1F2E", "U+1F2F",
      "U+1F30", "U+1F31", "U+1F32", "U+1F33", "U+1F34", "U+1F35", "U+1F36",
      "U+1F37", "U+1F38", "U+1F39", "U+1F3A", "U+1F3B", "U+1F3C", "U+1F3D",
      "U+1F3E", "U+1F3F", "U+1F40", "U+1F41", "U+1F42", "U+1F43", "U+1F44",
      "U+1F45", "U+1F48", "U+1F49", "U+1F4A", "U+1F4B", "U+1F4C", "U+1F4D",
      "U+1F50", "U+1F51", "U+1F52", "U+1F53", "U+1F54", "U+1F55", "U+1F56",
      "U+1F57", "U+1F59", "U+1F5B", "U+1F5D", "U+1F5F", "U+1F60", "U+1F61",
      "U+1F62", "U+1F63", "U+1F64", "U+1F65", "U+1F66", "U+1F67", "U+1F68",
      "U+1F69", "U+1F6A", "U+1F6B", "U+1F6C", "U+1F6D", "U+1F6E", "U+1F6F",
      "U+1F70", "U+1F71", "U+1F72", "U+1F73", "U+1F74", "U+1F75", "U+1F76",
      "U+1F77", "U+1F78", "U+1F79", "U+1F7A", "U+1F7B", "U+1F7C", "U+1F7D",
      "ᾀ", "ᾁ", "ᾂ", "ᾃ", "ᾄ", "ᾅ", "ᾆ", "ᾇ", "ᾈ", "ᾉ", "ᾊ", "ᾋ", "ᾌ", "ᾍ",
      "ᾎ", "ᾏ", "ᾐ", "ᾑ", "ᾒ", "ᾓ", "ᾔ", "ᾕ", "ᾖ", "ᾗ", "ᾘ", "ᾙ", "ᾚ", "ᾛ",
      "ᾜ", "ᾝ", "ᾞ", "ᾟ", "ᾠ", "ᾡ", "ᾢ", "ᾣ", "ᾤ", "ᾥ", "ᾦ", "ᾧ", "ᾨ", "ᾩ",
      "ᾪ", "ᾫ", "ᾬ", "ᾭ", "ᾮ", "ᾯ", "ᾰ", "ᾱ", "ᾲ", "ᾳ", "ᾴ", "ᾶ", "ᾷ", "Ᾰ",
      "Ᾱ", "Ὰ", "Ά", "ᾼ", "ι", "ῂ", "ῃ", "ῄ", "ῆ", "ῇ", "Ὲ", "Έ", "Ὴ", "Ή",
      "ῌ", "ῐ", "ῑ", "ῒ", "ΐ", "ῖ", "ῗ", "Ῐ", "Ῑ", "Ὶ", "Ί", "ῠ", "ῡ", "ῢ",
      "ΰ", "ῤ", "ῥ", "ῦ", "ῧ", "Ῠ", "Ῡ", "Ὺ", "Ύ", "Ῥ", "ῲ", "ῳ", "ῴ", "ῶ",
      "ῷ", "Ὸ", "Ό", "Ὼ", "Ώ", "ῼ", "U+2102", "U+2107", "U+210A", "U+210B",
      "U+210C", "U+210D", "U+210E", "U+210F", "U+2110", "U+2111", "U+2112",
      "U+2113", "U+2115", "U+2119", "U+211A", "U+211B", "U+211C", "U+211D",
      "U+2124", "U+2126", "U+2128", "U+212A", "U+212B", "U+212C", "U+212D",
      "U+212F", "U+2130", "U+2131", "U+2132", "U+2133", "U+2134", "U+2139",
      "U+213C", "U+213D", "U+213E", "U+213F", "U+2145", "U+2146", "U+2147",
      "U+2148", "U+2149", "U+214E", "U+2160", "U+2161", "U+2162", "U+2163",
      "U+2164", "U+2165", "U+2166", "U+2167", "U+2168", "U+2169", "U+216A",
      "U+216B", "U+216C", "U+216D", "U+216E", "U+216F", "U+2170", "U+2171",
      "U+2172", "U+2173", "U+2174", "U+2175", "U+2176", "U+2177", "U+2178",
      "U+2179", "U+217A", "U+217B", "U+217C", "U+217D", "U+217E", "U+217F",
      "Ↄ", "ↄ", "Ⓐ", "Ⓑ", "Ⓒ", "Ⓓ", "Ⓔ", "Ⓕ", "Ⓖ", "Ⓗ", "Ⓘ", "Ⓙ", "Ⓚ", "Ⓛ",
      "Ⓜ", "Ⓝ", "Ⓞ", "Ⓟ", "Ⓠ", "Ⓡ", "Ⓢ", "Ⓣ", "Ⓤ", "Ⓥ", "Ⓦ", "Ⓧ", "Ⓨ", "Ⓩ",
      "ⓐ", "ⓑ", "ⓒ", "ⓓ", "ⓔ", "ⓕ", "ⓖ", "ⓗ", "ⓘ", "ⓙ", "ⓚ", "ⓛ", "ⓜ", "ⓝ",
      "ⓞ", "ⓟ", "ⓠ", "ⓡ", "ⓢ", "ⓣ", "ⓤ", "ⓥ", "ⓦ", "ⓧ", "ⓨ", "ⓩ", "U+2C00",
      "U+2C01", "U+2C02", "U+2C03", "U+2C04", "U+2C05", "U+2C06", "U+2C07",
      "U+2C08", "U+2C09", "U+2C0A", "U+2C0B", "U+2C0C", "U+2C0D", "U+2C0E",
      "U+2C0F", "U+2C10", "U+2C11", "U+2C12", "U+2C13", "U+2C14", "U+2C15",
      "U+2C16", "U+2C17", "U+2C18", "U+2C19", "U+2C1A", "U+2C1B", "U+2C1C",
      "U+2C1D", "U+2C1E", "U+2C1F", "U+2C20", "U+2C21", "U+2C22", "U+2C23",
      "U+2C24", "U+2C25", "U+2C26", "U+2C27", "U+2C28", "U+2C29", "U+2C2A",
      "U+2C2B", "U+2C2C", "U+2C2D", "U+2C2E", "U+2C2F", "U+2C30", "U+2C31",
      "U+2C32", "U+2C33", "U+2C34", "U+2C35", "U+2C36", "U+2C37", "U+2C38",
      "U+2C39", "U+2C3A", "U+2C3B", "U+2C3C", "U+2C3D", "U+2C3E", "U+2C3F",
      "U+2C40", "U+2C41", "U+2C42", "U+2C43", "U+2C44", "U+2C45", "U+2C46",
      "U+2C47", "U+2C48", "U+2C49", "U+2C4A", "U+2C4B", "U+2C4C", "U+2C4D",
      "U+2C4E", "U+2C4F", "U+2C50", "U+2C51", "U+2C52", "U+2C53", "U+2C54",
      "U+2C55", "U+2C56", "U+2C57", "U+2C58", "U+2C59", "U+2C5A", "U+2C5B",
      "U+2C5C", "U+2C5D", "U+2C5E", "U+2C5F", "U+2C60", "U+2C61", "U+2C62",
      "U+2C63", "U+2C64", "U+2C65", "U+2C66", "U+2C67", "U+2C68", "U+2C69",
      "U+2C6A", "U+2C6B", "U+2C6C", "U+2C6D", "U+2C6E", "U+2C6F", "U+2C70",
      "U+2C71", "U+2C72", "U+2C73", "U+2C74", "U+2C75", "U+2C76", "U+2C77",
      "U+2C78", "U+2C79", "U+2C7A", "U+2C7B", "U+2C7E", "U+2C7F", "Ⲁ", "ⲁ",
      "Ⲃ", "ⲃ", "Ⲅ", "ⲅ", "Ⲇ", "ⲇ", "Ⲉ", "ⲉ", "Ⲋ", "ⲋ", "Ⲍ", "ⲍ", "Ⲏ", "ⲏ",
      "Ⲑ", "ⲑ", "Ⲓ", "ⲓ", "Ⲕ", "ⲕ", "Ⲗ", "ⲗ", "Ⲙ", "ⲙ", "Ⲛ", "ⲛ", "Ⲝ", "ⲝ",
      "Ⲟ", "ⲟ", "Ⲡ", "ⲡ", "Ⲣ", "ⲣ", "Ⲥ", "ⲥ", "Ⲧ", "ⲧ", "Ⲩ", "ⲩ", "Ⲫ", "ⲫ",
      "Ⲭ", "ⲭ", "Ⲯ", "ⲯ", "Ⲱ", "ⲱ", "Ⲳ", "ⲳ", "Ⲵ", "ⲵ", "Ⲷ", "ⲷ", "Ⲹ", "ⲹ",
      "Ⲻ", "ⲻ", "Ⲽ", "ⲽ", "Ⲿ", "ⲿ", "Ⳁ", "ⳁ", "Ⳃ", "ⳃ", "Ⳅ", "ⳅ", "Ⳇ", "ⳇ",
      "Ⳉ", "ⳉ", "Ⳋ", "ⳋ", "Ⳍ", "ⳍ", "Ⳏ", "ⳏ", "Ⳑ", "ⳑ", "Ⳓ", "ⳓ", "Ⳕ", "ⳕ",
      "Ⳗ", "ⳗ", "Ⳙ", "ⳙ", "Ⳛ", "ⳛ", "Ⳝ", "ⳝ", "Ⳟ", "ⳟ", "Ⳡ", "ⳡ", "Ⳣ", "ⳣ",
      "ⳤ", "Ⳬ", "ⳬ", "Ⳮ", "ⳮ", "Ⳳ", "ⳳ", "U+2D00", "U+2D01", "U+2D02",
      "U+2D03", "U+2D04", "U+2D05", "U+2D06", "U+2D07", "U+2D08", "U+2D09",
      "U+2D0A", "U+2D0B", "U+2D0C", "U+2D0D", "U+2D0E", "U+2D0F", "U+2D10",
      "U+2D11", "U+2D12", "U+2D13", "U+2D14", "U+2D15", "U+2D16", "U+2D17",
      "U+2D18", "U+2D19", "U+2D1A", "U+2D1B", "U+2D1C", "U+2D1D", "U+2D1E",
      "U+2D1F", "U+2D20", "U+2D21", "U+2D22", "U+2D23", "U+2D24", "U+2D25",
      "U+2D27", "U+2D2D", "U+A640", "U+A641", "U+A642", "U+A643", "U+A644",
      "U+A645", "U+A646", "U+A647", "U+A648", "U+A649", "U+A64A", "U+A64B",
      "U+A64C", "U+A64D", "U+A64E", "U+A64F", "U+A650", "U+A651", "U+A652",
      "U+A653", "U+A654", "U+A655", "U+A656", "U+A657", "U+A658", "U+A659",
      "U+A65A", "U+A65B", "U+A65C", "U+A65D", "U+A65E", "U+A65F", "U+A660",
      "U+A661", "U+A662", "U+A663", "U+A664", "U+A665", "U+A666", "U+A667",
      "U+A668", "U+A669", "U+A66A", "U+A66B", "U+A66C", "U+A66D", "Ꚁ", "ꚁ",
      "Ꚃ", "ꚃ", "Ꚅ", "ꚅ", "Ꚇ", "ꚇ", "Ꚉ", "ꚉ", "Ꚋ", "ꚋ", "Ꚍ", "ꚍ", "Ꚏ", "ꚏ",
      "Ꚑ", "ꚑ", "Ꚓ", "ꚓ", "Ꚕ", "ꚕ", "Ꚗ", "ꚗ", "Ꚙ", "ꚙ", "Ꚛ", "ꚛ", "U+A722",
      "U+A723", "U+A724", "U+A725", "U+A726", "U+A727", "U+A728", "U+A729",
      "U+A72A", "U+A72B", "U+A72C", "U+A72D", "U+A72E", "U+A72F", "U+A730",
      "U+A731", "U+A732", "U+A733", "U+A734", "U+A735", "U+A736", "U+A737",
      "U+A738", "U+A739", "U+A73A", "U+A73B", "U+A73C", "U+A73D", "U+A73E",
      "U+A73F", "U+A740", "U+A741", "U+A742", "U+A743", "U+A744", "U+A745",
      "U+A746", "U+A747", "U+A748", "U+A749", "U+A74A", "U+A74B", "U+A74C",
      "U+A74D", "U+A74E", "U+A74F", "U+A750", "U+A751", "U+A752", "U+A753",
      "U+A754", "U+A755", "U+A756", "U+A757", "U+A758", "U+A759", "U+A75A",
      "U+A75B", "U+A75C", "U+A75D", "U+A75E", "U+A75F", "U+A760", "U+A761",
      "U+A762", "U+A763", "U+A764", "U+A765", "U+A766", "U+A767", "U+A768",
      "U+A769", "U+A76A", "U+A76B", "U+A76C", "U+A76D", "U+A76E", "U+A76F",
      "U+A771", "U+A772", "U+A773", "U+A774", "U+A775", "U+A776", "U+A777",
      "U+A778", "U+A779", "U+A77A", "U+A77B", "U+A77C", "U+A77D", "U+A77E",
      "U+A77F", "Ꞁ", "ꞁ", "Ꞃ", "ꞃ", "Ꞅ", "ꞅ", "Ꞇ", "ꞇ", "Ꞌ", "ꞌ", "Ɥ", "ꞎ",
      "Ꞑ", "ꞑ", "Ꞓ", "ꞓ", "ꞔ", "ꞕ", "Ꞗ", "ꞗ", "Ꞙ", "ꞙ", "Ꞛ", "ꞛ", "Ꞝ", "ꞝ",
      "Ꞟ", "ꞟ", "Ꞡ", "ꞡ", "Ꞣ", "ꞣ", "Ꞥ", "ꞥ", "Ꞧ", "ꞧ", "Ꞩ", "ꞩ", "Ɦ", "Ɜ",
      "Ɡ", "Ɬ", "Ɪ", "ꞯ", "Ʞ", "Ʇ", "Ʝ", "Ꭓ", "Ꞵ", "ꞵ", "Ꞷ", "ꞷ", "Ꞹ", "ꞹ",
      "Ꞻ", "ꞻ", "Ꞽ", "ꞽ", "Ꞿ", "ꞿ", "Ꟁ", "ꟁ", "Ꟃ", "ꟃ", "Ꞔ", "Ʂ", "Ᶎ", "Ꟈ",
      "ꟈ", "Ꟊ", "ꟊ", "Ɤ", "Ꟍ", "ꟍ", "꟎", "꟏", "Ꟑ", "ꟑ", "꟒", "ꟓ", "꟔", "ꟕ",
      "Ꟗ", "ꟗ", "Ꟙ", "ꟙ", "Ꟛ", "ꟛ", "Ƛ", "Ꟶ", "ꟶ", "ꟺ", "U+AB30", "U+AB31",
      "U+AB32", "U+AB33", "U+AB34", "U+AB35", "U+AB36", "U+AB37", "U+AB38",
      "U+AB39", "U+AB3A", "U+AB3B", "U+AB3C", "U+AB3D", "U+AB3E", "U+AB3F",
      "U+AB40", "U+AB41", "U+AB42", "U+AB43", "U+AB44", "U+AB45", "U+AB46",
      "U+AB47", "U+AB48", "U+AB49", "U+AB4A", "U+AB4B", "U+AB4C", "U+AB4D",
      "U+AB4E", "U+AB4F", "U+AB50", "U+AB51", "U+AB52", "U+AB53", "U+AB54",
      "U+AB55", "U+AB56", "U+AB57", "U+AB58", "U+AB59", "U+AB5A", "U+AB60",
      "U+AB61", "U+AB62", "U+AB63", "U+AB64", "U+AB65", "U+AB66", "U+AB67",
      "U+AB68", "U+AB70", "U+AB71", "U+AB72", "U+AB73", "U+AB74", "U+AB75",
      "U+AB76", "U+AB77", "U+AB78", "U+AB79", "U+AB7A", "U+AB7B", "U+AB7C",
      "U+AB7D", "U+AB7E", "U+AB7F", "ꮀ", "ꮁ", "ꮂ", "ꮃ", "ꮄ", "ꮅ", "ꮆ", "ꮇ",
      "ꮈ", "ꮉ", "ꮊ", "ꮋ", "ꮌ", "ꮍ", "ꮎ", "ꮏ", "ꮐ", "ꮑ", "ꮒ", "ꮓ", "ꮔ", "ꮕ",
      "ꮖ", "ꮗ", "ꮘ", "ꮙ", "ꮚ", "ꮛ", "ꮜ", "ꮝ", "ꮞ", "ꮟ", "ꮠ", "ꮡ", "ꮢ", "ꮣ",
      "ꮤ", "ꮥ", "ꮦ", "ꮧ", "ꮨ", "ꮩ", "ꮪ", "ꮫ", "ꮬ", "ꮭ", "ꮮ", "ꮯ", "ꮰ", "ꮱ",
      "ꮲ", "ꮳ", "ꮴ", "ꮵ", "ꮶ", "ꮷ", "ꮸ", "ꮹ", "ꮺ", "ꮻ", "ꮼ", "ꮽ", "ꮾ", "ꮿ",
      "U+FB00", "U+FB01", "U+FB02", "U+FB03", "U+FB04", "U+FB05", "U+FB06",
      "U+FB13", "U+FB14", "U+FB15", "U+FB16", "U+FB17", "U+FF21", "U+FF22",
      "U+FF23", "U+FF24", "U+FF25", "U+FF26", "U+FF27", "U+FF28", "U+FF29",
      "U+FF2A", "U+FF2B", "U+FF2C", "U+FF2D", "U+FF2E", "U+FF2F", "U+FF30",
      "U+FF31", "U+FF32", "U+FF33", "U+FF34", "U+FF35", "U+FF36", "U+FF37",
      "U+FF38", "U+FF39", "U+FF3A", "U+FF41", "U+FF42", "U+FF43", "U+FF44",
      "U+FF45", "U+FF46", "U+FF47", "U+FF48", "U+FF49", "U+FF4A", "U+FF4B",
      "U+FF4C", "U+FF4D", "U+FF4E", "U+FF4F", "U+FF50", "U+FF51", "U+FF52",
      "U+FF53", "U+FF54", "U+FF55", "U+FF56", "U+FF57", "U+FF58", "U+FF59",
      "U+FF5A" }

\* The case-ignorable characters (property Case_Ignorable).
CaseIgnorable ==
    { "'", ".", ":", "^", "U+0060", "¨", "­", "¯", "´", "·", "¸", "ʰ", "ʱ",
      "ʲ", "ʳ", "ʴ", "ʵ", "ʶ", "ʷ", "ʸ", "ʹ", "ʺ", "ʻ", "ʼ", "ʽ", "ʾ", "ʿ",
      "ˀ", "ˁ", "˂", "˃", "˄", "˅", "ˆ", "ˇ", "ˈ", "ˉ", "ˊ", "ˋ", "ˌ", "ˍ",
      "ˎ", "ˏ", "ː", "ˑ", "˒", "˓", "˔", "˕", "˖", "˗", "˘", "˙", "˚", "˛",
      "˜", "˝", "˞", "˟", "ˠ", "ˡ", "ˢ", "ˣ", "ˤ", "˥", "˦", "˧", "˨", "˩",
      "˪", "˫", "ˬ", "˭", "ˮ", "˯", "˰", "˱", "˲", "˳", "˴", "˵", "˶", "˷",
      "˸", "˹", "˺", "˻", "˼", "˽", "˾", "˿", "U+0300", "U+0301", "U+0302",
      "U+0303", "U+0304", "U+0305", "U+0306", "U+0307", "U+0308", "U+0309",
      "U+030A", "U+030B", "U+030C", "U+030D", "U+030E", "U+030F", "U+0310",
      "U+0311", "U+0312", "U+0313", "U+0314", "U+0315", "U+0316", "U+0317",
      "U+0318", "U+0319", "U+031A", "U+031B", "U+031C", "U+031D", "U+031E",
      "U+031F", "U+0320", "U+0321", "U+0322", "U+0323", "U+0324", "U+0325",
      "U+0326", "U+0327", "U+0328", "U+0329", "U+032A", "U+032B", "U+032C",
      "U+032D", "U+032E", "U+032F", "U+0330", "U+0331", "U+0332", "U+0333",
      "U+0334", "U+0335", "U+0336", "U+0337", "U+0338", "U+0339", "U+033A",
      "U+033B", "U+033C", "U+033D", "U+033E", "U+033F", "U+0340", "U+0341",
      "U+0342", "U+0343", "U+0344", "U+0345", "U+0346", "U+0347", "U+0348",
      "U+0349", "U+034A", "U+034B", "U+034C", "U+034D", "U+034E", "U+034F",
      "U+0350", "U+0351", "U+0352", "U+0353", "U+0354", "U+0355", "U+0356",
      "U+0357", "U+0358", "U+0359", "U+035A", "U+035B", "U+035C", "U+035D",
      "U+035E", "U+035F", "U+0360", "U+0361", "U+0362", "U+0363", "U+0364",
      "U+0365", "U+0366", "U+0367", "U+0368", "U+0369", "U+036A", "U+036B",
      "U+036C", "U+036D", "U+036E", "U+036F", "U+0374", "U+0375", "U+037A",
      "΄", "΅", "·", "҃", "҄", "҅", "҆", "҇", "҈", "҉", "U+0559", "U+055F",
      "֑", "֒", "֓", "֔", "֕", "֖", "֗", "֘", "֙", "֚", "֛", "֜", "֝", "֞",
      "֟", "֠", "֡", "֢", "֣", "֤", "֥", "֦", "֧", "֨", "֩", "֪", "֫", "֬",
      "֭", "֮", "֯", "ְ", "ֱ", "ֲ", "ֳ", "ִ", "ֵ", "ֶ", "ַ", "ָ", "ֹ", "ֺ",
      "ֻ", "ּ", "ֽ", "ֿ", "ׁ", "ׂ", "ׄ", "ׅ", "ׇ", "״", "U+0600", "U+0601",
      "U+0602", "U+0603", "U+0604", "U+0605", "U+0610", "U+0611", "U+0612",
      "U+0613", "U+0614", "U+0615", "U+0616", "U+0617", "U+0618", "U+0619",
      "U+061A", "U+061C", "U+0640", "U+064B", "U+064C", "U+064D", "U+064E",
      "U+064F", "U+0650", "U+0651", "U+0652", "U+0653", "U+0654", "U+0655",
      "U+0656", "U+0657", "U+0658", "U+0659", "U+065A", "U+065B", "U+065C",
      "U+065D", "U+065E", "U+065F", "U+0670", "ۖ", "ۗ", "ۘ", "ۙ", "ۚ", "ۛ",
      "ۜ", "۝", "۟", "۠", "ۡ", "ۢ", "ۣ", "ۤ", "ۥ", "ۦ", "ۧ", "ۨ", "۪", "۫",
      "۬", "ۭ", "U+070F", "U+0711", "U+0730", "U+0731", "U+0732", "U+0733",
      "U+0734", "U+0735", "U+0736", "U+0737", "U+0738", "U+0739", "U+073A",
      "U+073B", "U+073C", "U+073D", "U+073E", "U+073F", "U+0740", "U+0741",
      "U+0742", "U+0743", "U+0744", "U+0745", "U+0746", "U+0747", "U+0748",
      "U+0749", "U+074A", "ަ", "ާ", "ި", "ީ", "ު", "ޫ", "ެ", "ޭ", "ޮ", "ޯ",
      "ް", "߫", "߬", "߭", "߮", "߯", "߰", "߱", "߲", "߳", "ߴ", "ߵ", "ߺ", "߽",
      "U+0816", "U+0817", "U+0818", "U+0819", "U+081A", "U+081B", "U+081C",
      "U+081D", "U+081E", "U+081F", "U+0820", "U+0821", "U+0822", "U+0823",
      "U+0824", "U+0825", "U+0826", "U+0827", "U+0828", "U+0829", "U+082A",
      "U+082B", "U+082C", "U+082D", "U+0859", "U+085A", "U+085B", "࢈", "࢐",
      "࢑", "ࢗ", "࢘", "࢙", "࢚", "࢛", "࢜", "࢝", "࢞", "࢟", "ࣉ", "࣊", "࣋", "࣌",
      "࣍", "࣎", "࣏", "࣐", "࣑", "࣒", "࣓", "ࣔ", "ࣕ", "ࣖ", "ࣗ", "ࣘ", "ࣙ", "ࣚ",
      "ࣛ", "ࣜ", "ࣝ", "ࣞ", "ࣟ", "࣠", "࣡", "࣢", "ࣣ", "ࣤ", "ࣥ", "ࣦ", "ࣧ", "ࣨ",
      "ࣩ", "࣪", "࣫", "࣬", "࣭", "࣮", "࣯", "ࣰ", "ࣱ", "ࣲ", "ࣳ", "ࣴ", "ࣵ", "ࣶ",
      "ࣷ", "ࣸ", "ࣹ", "ࣺ", "ࣻ", "ࣼ", "ࣽ", "ࣾ", "ࣿ", "U+0900", "U+0901",
      "U+0902", "U+093A", "U+093C", "U+0941", "U+0942", "U+0943", "U+0944",
      "U+0945", "U+0946", "U+0947", "U+0948", "U+094D", "U+0951", "U+0952",
      "U+0953", "U+0954", "U+0955", "U+0956", "U+0957", "U+0962", "U+0963",
      "U+0971", "ঁ", "়", "ু", "ূ", "ৃ", "ৄ", "্", "ৢ", "ৣ", "৾", "U+0A01",
      "U+0A02", "U+0A3C", "U+0A41", "U+0A42", "U+0A47", "U+0A48", "U+0A4B",
      "U+0A4C", "U+0A4D", "U+0A51", "U+0A70", "U+0A71", "U+0A75", "ઁ", "ં",
      "઼", "ુ", "ૂ", "ૃ", "ૄ", "ૅ", "ે", "ૈ", "્", "ૢ", "ૣ", "ૺ", "ૻ", "ૼ",
      "૽", "૾", "૿", "U+0B01", "U+0B3C", "U+0B3F", "U+0B41", "U+0B42",
      "U+0B43", "U+0B44", "U+0B4D", "U+0B55", "U+0B56", "U+0B62", "U+0B63",
      "ஂ", "ீ", "்", "U+0C00", "U+0C04", "U+0C3C", "U+0C3E", "U+0C3F",
      "U+0C40", "U+0C46", "U+0C47", "U+0C48", "U+0C4A", "U+0C4B", "U+0C4C",
      "U+0C4D", "U+0C55", "U+0C56", "U+0C62", "U+0C63", "ಁ", "಼", "ಿ", "ೆ",
      "ೌ", "್", "ೢ", "ೣ", "U+0D00", "U+0D01", "U+0D3B", "U+0D3C", "U+0D41",
      "U+0D42", "U+0D43", "U+0D44", "U+0D4D", "U+0D62", "U+0D63", "ඁ", "්",
      "ි", "ී", "ු", "ූ", "U+0E31", "U+0E34", "U+0E35", "U+0E36", "U+0E37",
      "U+0E38", "U+0E39", "U+0E3A", "U+0E46", "U+0E47", "U+0E48", "U+0E49",
      "U+0E4A", "U+0E4B", "U+0E4C", "U+0E4D", "U+0E4E", "ັ", "ິ", "ີ", "ຶ",
      "ື", "ຸ", "ູ", "຺", "ົ", "ຼ", "ໆ", "່", "້", "໊", "໋", "໌", "ໍ", "໎",
      "U+0F18", "U+0F19", "U+0F35", "U+0F37", "U+0F39", "U+0F71", "U+0F72",
      "U+0F73", "U+0F74", "U+0F75", "U+0F76", "U+0F77", "U+0F78", "U+0F79",
      "U+0F7A", "U+0F7B", "U+0F7C", "U+0F7D", "U+0F7E", "ྀ", "ཱྀ", "ྂ", "ྃ",
      "྄", "྆", "྇", "ྍ", "ྎ", "ྏ", "ྐ", "ྑ", "ྒ", "ྒྷ", "ྔ", "ྕ", "ྖ", "ྗ",
      "ྙ", "ྚ", "ྛ", "ྜ", "ྜྷ", "ྞ", "ྟ", "ྠ", "ྡ", "ྡྷ", "ྣ", "ྤ", "ྥ", "ྦ",
      "ྦྷ", "ྨ", "ྩ", "ྪ", "ྫ", "ྫྷ", "ྭ", "ྮ", "ྯ", "ྰ", "ྱ", "ྲ", "ླ", "ྴ",
      "ྵ", "ྶ", "ྷ", "ྸ", "ྐྵ", "ྺ", "ྻ", "ྼ", "࿆", "U+102D", "U+102E",
      "U+102F", "U+1030", "U+1032", "U+1033", "U+1034", "U+1035", "U+1036",
      "U+1037", "U+1039", "U+103A", "U+103D", "U+103E", "U+1058", "U+1059",
      "U+105E", "U+105F", "U+1060", "U+1071", "U+1072", "U+1073", "U+1074",
      "ႂ", "ႅ", "ႆ", "ႍ", "ႝ", "ჼ", "U+135D", "U+135E", "U+135F", "U+1712",
      "U+1713", "U+1714", "U+1732", "U+1733", "U+1752", "U+1753", "U+1772",
      "U+1773", "឴", "឵", "ិ", "ី", "ឹ", "ឺ", "ុ", "ូ", "ួ", "ំ", "៉", "៊",
      "់", "៌", "៍", "៎", "៏", "័", "៑", "្", "៓", "ៗ", "៝", "U+180B",
      "U+180C", "U+180D", "U+180E", "U+180F", "U+1843", "ᢅ", "ᢆ", "ᢩ",
      "U+1920", "U+1921", "U+1922", "U+1927", "U+1928", "U+1932", "U+1939",
      "U+193A", "U+193B", "U+1A17", "U+1A18", "U+1A1B", "U+1A56", "U+1A58",
      "U+1A59", "U+1A5A", "U+1A5B", "U+1A5C", "U+1A5D", "U+1A5E", "U+1A60",
      "U+1A62", "U+1A65", "U+1A66", "U+1A67", "U+1A68", "U+1A69", "U+1A6A",
      "U+1A6B", "U+1A6C", "U+1A73", "U+1A74", "U+1A75", "U+1A76", "U+1A77",
      "U+1A78", "U+1A79", "U+1A7A", "U+1A7B", "U+1A7C", "U+1A7F", "ᪧ", "᪰",
      "᪱", "᪲", "᪳", "᪴", "᪵", "᪶", "᪷", "᪸", "᪹", "᪺", "᪻", "᪼", "᪽", "᪾",
      "ᪿ", "ᫀ", "᫁", "᫂", "᫃", "᫄", "᫅", "᫆", "᫇", "᫈", "᫉", "᫊", "᫋", "ᫌ",
      "ᫍ", "ᫎ", "᫏", "᫐", "᫑", "᫒", "᫓", "᫔", "᫕", "᫖", "᫗", "᫘", "᫙", "᫚",
      "᫛", "᫜", "᫝", "᫠", "᫡", "᫢", "᫣", "᫤", "᫥", "᫦", "᫧", "᫨", "᫩", "᫪",
      "᫫", "U+1B00", "U+1B01", "U+1B02", "U+1B03", "U+1B34", "U+1B36",
      "U+1B37", "U+1B38", "U+1B39", "U+1B3A", "U+1B3C", "U+1B42", "U+1B6B",
      "U+1B6C", "U+1B6D", "U+1B6E", "U+1B6F", "U+1B70", "U+1B71", "U+1B72",
      "U+1B73", "ᮀ", "ᮁ", "ᮢ", "ᮣ", "ᮤ", "ᮥ", "ᮨ", "ᮩ", "᮫", "ᮬ", "ᮭ", "᯦",
      "ᯨ", "ᯩ", "ᯭ", "ᯯ", "ᯰ", "ᯱ", "U+1C2C", "U+1C2D", "U+1C2E", "U+1C2F",
      "U+1C30", "U+1C31", "U+1C32", "U+1C33", "U+1C36", "U+1C37", "U+1C78",
      "U+1C79", "U+1C7A", "U+1C7B", "U+1C7C", "U+1C7D", "᳐", "᳑", "᳒", "᳔",
      "᳕", "᳖", "᳗", "᳘", "᳙", "᳚", "᳛", "᳜", "᳝", "᳞", "᳟", "᳠", "᳢", "᳣",
      "᳤", "᳥", "᳦", "᳧", "᳨", "᳭", "᳴", "᳸", "᳹", "U+1D2C", "U+1D2D",
      "U+1D2E", "U+1D2F", "U+1D30", "U+1D31", "U+1D32", "U+1D33", "U+1D34",
      "U+1D35", "U+1D36", "U+1D37", "U+1D38", "U+1D39", "U+1D3A", "U+1D3B",
      "U+1D3C", "U+1D3D", "U+1D3E", "U+1D3F", "U+1D40", "U+1D41", "U+1D42",
      "U+1D43", "U+1D44", "U+1D45", "U+1D46", "U+1D47", "U+1D48", "U+1D49",
      "U+1D4A", "U+1D4B", "U+1D4C", "U+1D4D", "U+1D4E", "U+1D4F", "U+1D50",
      "U+1D51", "U+1D52", "U+1D53", "U+1D54", "U+1D55", "U+1D56", "U+1D57",
      "U+1D58", "U+1D59", "U+1D5A", "U+1D5B", "U+1D5C", "U+1D5D", "U+1D5E",
      "U+1D5F", "U+1D60", "U+1D61", "U+1D62", "U+1D63", "U+1D64", "U+1D65",
      "U+1D66", "U+1D67", "U+1D68", "U+1D69", "U+1D6A", "U+1D78", "ᶛ", "ᶜ",
      "ᶝ", "ᶞ", "ᶟ", "ᶠ", "ᶡ", "ᶢ", "ᶣ", "ᶤ", "ᶥ", "ᶦ", "ᶧ", "ᶨ", "ᶩ", "ᶪ",
      "ᶫ", "ᶬ", "ᶭ", "ᶮ", "ᶯ", "ᶰ", "ᶱ", "ᶲ", "ᶳ", "ᶴ", "ᶵ", "ᶶ", "ᶷ", "ᶸ",
      "ᶹ", "ᶺ", "ᶻ", "ᶼ", "ᶽ", "ᶾ", "ᶿ", "᷀", "᷁", "᷂", "᷃", "᷄", "᷅", "᷆",
      "᷇", "᷈", "᷉", "᷊", "᷋", "᷌", "᷍", "᷎", "᷏", "᷐", "᷑", "᷒", "ᷓ", "ᷔ",
      "ᷕ", "ᷖ", "ᷗ", "ᷘ", "ᷙ", "ᷚ", "ᷛ", "ᷜ", "ᷝ", "ᷞ", "ᷟ", "ᷠ", "ᷡ", "ᷢ",
      "ᷣ", "ᷤ", "ᷥ", "ᷦ", "ᷧ", "ᷨ", "ᷩ", "ᷪ", "ᷫ", "ᷬ", "ᷭ", "ᷮ", "ᷯ", "ᷰ",
      "ᷱ", "ᷲ", "ᷳ", "ᷴ", "᷵", "᷶", "᷷", "᷸", "᷹", "᷺", "᷻", "᷼", "᷽", "᷾",
      "᷿", "᾽", "᾿", "῀", "῁", "῍", "῎", "῏", "῝", "῞", "῟", "῭", "΅", "`",
      "´", "῾", "U+200B", "U+200C", "U+200D", "U+200E", "U+200F", "U+2018",
      "U+2019", "U+2024", "U+2027", "U+202A", "U+202B", "U+202C", "U+202D",
      "U+202E", "U+2060", "U+2061", "U+2062", "U+2063", "U+2064", "U+2066",
      "U+2067", "U+2068", "U+2069", "U+206A", "U+206B", "U+206C", "U+206D",
      "U+206E", "U+206F", "U+2071", "U+207F", "ₐ", "ₑ", "ₒ", "ₓ", "ₔ", "ₕ",
      "ₖ", "ₗ", "ₘ", "ₙ", "ₚ", "ₛ", "ₜ", "⃐", "⃑", "⃒", "⃓", "⃔", "⃕", "⃖",
      "⃗", "⃘", "⃙", "⃚", "⃛", "⃜", "⃝", "⃞", "⃟", "⃠", "⃡", "⃢", "⃣", "⃤",
      "⃥", "⃦", "⃧", "⃨", "⃩", "⃪", "⃫", "⃬", "⃭", "⃮", "⃯", "⃰", "U+2C7C",
      "U+2C7D", "⳯", "⳰", "⳱", "U+2D6F", "U+2D7F", "ⷠ", "ⷡ", "ⷢ", "ⷣ", "ⷤ",
      "ⷥ", "ⷦ", "ⷧ", "ⷨ", "ⷩ", "ⷪ", "ⷫ", "ⷬ", "ⷭ", "ⷮ", "ⷯ", "ⷰ", "ⷱ", "ⷲ",
      "ⷳ", "ⷴ", "ⷵ", "ⷶ", "ⷷ", "ⷸ", "ⷹ", "ⷺ", "ⷻ", "ⷼ", "ⷽ", "ⷾ", "ⷿ",
      "U+2E2F", "U+3005", "U+302A", "U+302B", "U+302C", "U+302D", "U+3031",
      "U+3032", "U+3033", "U+3034", "U+3035", "U+303B", "゙", "゚", "゛", "゜",
      "ゝ", "ゞ", "ー", "ヽ", "ヾ", "U+A015", "ꓸ", "ꓹ", "ꓺ", "ꓻ", "ꓼ", "ꓽ",
      "U+A60C", "U+A66F", "U+A670", "U+A671", "U+A672", "U+A674", "U+A675",
      "U+A676", "U+A677", "U+A678", "U+A679", "U+A67A", "U+A67B", "U+A67C",
      "U+A67D", "U+A67F", "ꚜ", "ꚝ", "ꚞ", "ꚟ", "꛰", "꛱", "U+A700", "U+A701",
      "U+A702", "U+A703", "U+A704", "U+A705", "U+A706", "U+A707", "U+A708",
      "U+A709", "U+A70A", "U+A70B", "U+A70C", "U+A70D", "U+A70E", "U+A70F",
      "U+A710", "U+A711", "U+A712", "U+A713", "U+A714", "U+A715", "U+A716",
      "U+A717", "U+A718", "U+A719", "U+A71A", "U+A71B", "U+A71C", "U+A71D",
      "U+A71E", "U+A71F", "U+A720", "U+A721", "U+A770", "ꞈ", "꞉", "꞊", "꟱",
      "ꟲ", "ꟳ", "ꟴ", "ꟸ", "ꟹ", "U+A802", "U+A806", "U+A80B", "U+A825",
      "U+A826", "U+A82C", "꣄", "ꣅ", "꣠", "꣡", "꣢", "꣣", "꣤", "꣥", "꣦", "꣧",
      "꣨", "꣩", "꣪", "꣫", "꣬", "꣭", "꣮", "꣯", "꣰", "꣱", "ꣿ", "U+A926",
      "U+A927", "U+A928", "U+A929", "U+A92A", "U+A92B", "U+A92C", "U+A92D",
      "U+A947", "U+A948", "U+A949", "U+A94A", "U+A94B", "U+A94C", "U+A94D",
      "U+A94E", "U+A94F", "U+A950", "U+A951", "ꦀ", "ꦁ", "ꦂ", "꦳", "ꦶ", "ꦷ",
      "ꦸ", "ꦹ", "ꦼ", "ꦽ", "ꧏ", "ꧥ", "ꧦ", "U+AA29", "U+AA2A", "U+AA2B",
      "U+AA2C", "U+AA2D", "U+AA2E", "U+AA31", "U+AA32", "U+AA35", "U+AA36",
      "U+AA43", "U+AA4C", "U+AA70", "U+AA7C", "ꪰ", "ꪲ", "ꪳ", "ꪴ", "ꪷ", "ꪸ",
      "ꪾ", "꪿", "꫁", "ꫝ", "ꫬ", "ꫭ", "ꫳ", "ꫴ", "꫶", "U+AB5B", "U+AB5C",
      "U+AB5D", "U+AB5E", "U+AB5F", "U+AB69", "U+AB6A", "U+AB6B", "ꯥ", "ꯨ",
      "꯭", "U+FB1E", "﮲", "﮳", "﮴", "﮵", "﮶", "﮷", "﮸", "﮹", "﮺", "﮻", "﮼",
      "﮽", "﮾", "﮿", "﯀", "﯁", "﯂", "U+FE00", "U+FE01", "U+FE02", "U+FE03",
      "U+FE04", "U+FE05", "U+FE06", "U+FE07", "U+FE08", "U+FE09", "U+FE0A",
      "U+FE0B", "U+FE0C", "U+FE0D", "U+FE0E", "U+FE0F", "U+FE13", "U+FE20",
      "U+FE21", "U+FE22", "U+FE23", "U+FE24", "U+FE25", "U+FE26", "U+FE27",
      "U+FE28", "U+FE29", "U+FE2A", "U+FE2B", "U+FE2C", "U+FE2D", "U+FE2E",
      "U+FE2F", "U+FE52", "U+FE55", "﻿", "U+FF07", "U+FF0E", "U+FF1A",
      "U+FF3E", "U+FF40", "U+FF70", "ﾞ", "ﾟ", "￣", "￹", "￺", "￻" }

\* The letter before position i, the case-ignorable characters in between
\* skipped, is cased; the letter after it is.
afterCased(s, i) ==
    \E k \in 1..(i - 1) :
        /\ s[k] \in CasedLetters
        /\ \A m \in (k + 1)..(i - 1) : s[m] \in CaseIgnorable

beforeCased(s, i) ==
    \E k \in (i + 1)..Len(s) :
        /\ s[k] \in CasedLetters
        /\ \A m \in (i + 1)..(k - 1) : s[m] \in CaseIgnorable

\* The condition Final_Sigma of the special casing rules: the sigma ends a
\* word.
isFinalSigma(s, i) == afterCased(s, i) /\ ~beforeCased(s, i)

\* The lower case of the code unit at position i of s: one code unit, but two
\* for U+0130 (i and the combining dot above), and the final or the medial
\* small sigma for Σ, by the place of the Σ in s.
lowerOf(s, i) ==
    IF s[i] = "U+0130" THEN <<"i", "U+0307">>
    ELSE IF s[i] = "Σ" THEN (IF isFinalSigma(s, i) THEN <<"ς">> ELSE <<"σ">>)
    ELSE <<toLowerChar(s[i])>>

RECURSIVE LowerRange(_, _, _)
LowerRange(s, lo, hi) ==
    IF lo > hi THEN <<>>
    ELSE IF lo = hi THEN lowerOf(s, lo)
    ELSE LowerRange(s, lo, (lo + hi) \div 2) \o LowerRange(s, ((lo + hi) \div 2) + 1, hi)

\* String.prototype.toLowerCase()
toLowerCase(s) ==
    IF \A i \in 1..Len(s) : s[i] # "U+0130"
    THEN [i \in 1..Len(s) |-> lowerOf(s, i)[1]]
    ELSE LowerRange(s, 1, Len(s))

\* The array literal of stop words in scoreChunk.
StopWords ==
    { <<"t", "h", "e">>, <<"a", "n", "d">>, <<"f", "o", "r">>,
      <<"a", "r", "e">>, <<"b", "u", "t">>, <<"n", "o", "t">>,
      <<"y", "o", "u">>, <<"a", "l", "l">>, <<"c", "a", "n">>,
      <<"h", "a", "d">>, <<"h", "e", "r">>, <<"w", "a", "s">>,
      <<"o", "n", "e">>, <<"o", "u", "r">>, <<"o", "u", "t">>,
      <<"h", "a", "s">>, <<"h", "o", "w">>, <<"w", "h", "o">>,
      <<"w", "h", "a", "t">>, <<"w", "h", "e", "n">>,
      <<"w", "h", "e", "r", "e">>, <<"w", "h", "i", "c", "h">>,
      <<"w", "h", "y">>, <<"t", "h", "i", "s">>, <<"t", "h", "a", "t">>,
      <<"w", "i", "t", "h">>, <<"f", "r", "o", "m">>, <<"h", "a", "v", "e">>,
      <<"w", "i", "l", "l">>, <<"d", "o", "e", "s">>,
      <<"a", "b", "o", "u", "t">> }

MinTokenLength == 2

LongEnough(w) == Len(w) > MinTokenLength

\* The stop-word filter left out.
NoStopWordFilter(w) == TRUE

NotStopWord(w) == w \notin StopWords

\* questionWords without the toLowerCase() call.
questionWordsNoLower(q) ==
    SelectSeq(SelectSeq(split(q), LongEnough), NotStopWord)

\* const questionWords = question.toLowerCase().split(/\s+/).filter(..).filter(..)
questionWords(q) ==
    SelectSeq(SelectSeq(split(toLowerCase(q)), LongEnough), NotStopWord)

\* The code units the i flag of a regular expression without the u flag
\* changes when it compares, as <<character, canonical character>>: the
\* upper case of the character, where that is one code unit and not an ASCII
\* one for a character that is not ASCII.
CanonicalPairs ==
    { <<"a", "A">>, <<"b", "B">>, <<"c", "C">>, <<"d", "D">>, <<"e", "E">>,
      <<"f", "F">>, <<"g", "G">>, <<"h", "H">>, <<"i", "I">>, <<"j", "J">>,
      <<"k", "K">>, <<"l", "L">>, <<"m", "M">>, <<"n", "N">>, <<"o", "O">>,
      <<"p", "P">>, <<"q", "Q">>, <<"r", "R">>, <<"s", "S">>, <<"t", "T">>,
      <<"u", "U">>, <<"v", "V">>, <<"w", "W">>, <<"x", "X">>, <<"y", "Y">>,
      <<"z", "Z">>, <<"µ", "Μ">>, <<"à", "À">>, <<"á", "Á">>, <<"â", "Â">>,
      <<"ã", "Ã">>, <<"ä", "Ä">>, <<"å", "Å">>, <<"æ", "Æ">>, <<"ç", "Ç">>,
      <<"è", "È">>, <<"é", "É">>, <<"ê", "Ê">>, <<"ë", "Ë">>, <<"ì", "Ì">>,
      <<"í", "Í">>, <<"î", "Î">>, <<"ï", "Ï">>, <<"ð", "Ð">>, <<"ñ", "Ñ">>,
      <<"ò", "Ò">>, <<"ó", "Ó">>, <<"ô", "Ô">>, <<"õ", "Õ">>, <<"ö", "Ö">>,
      <<"ø", "Ø">>, <<"ù", "Ù">>, <<"ú", "Ú">>, <<"û", "Û">>, <<"ü", "Ü">>,
      <<"ý", "Ý">>, <<"þ", "Þ">>, <<"ÿ", "U+0178">>, <<"U+0101", "U+0100">>,
      <<"U+0103", "U+0102">>, <<"U+0105", "U+0104">>, <<"U+0107", "U+0106">>,
      <<"U+0109", "U+0108">>, <<"U+010B", "U+010A">>, <<"U+010D", "U+010C">>,
      <<"U+010F", "U+010E">>, <<"U+0111", "U+0110">>, <<"U+0113", "U+0112">>,
      <<"U+0115", "U+0114">>, <<"U+0117", "U+0116">>, <<"U+0119", "U+0118">>,
      <<"U+011B", "U+011A">>, <<"U+011D", "U+011C">>, <<"U+011F", "U+011E">>,
      <<"U+0121", "U+0120">>, <<"U+0123", "U+0122">>, <<"U+0125", "U+0124">>,
      <<"U+0127", "U+0126">>, <<"U+0129", "U+0128">>, <<"U+012B", "U+012A">>,
      <<"U+012D", "U+012C">>, <<"U+012F", "U+012E">>, <<"U+0133", "U+0132">>,
      <<"U+0135", "U+0134">>, <<"U+0137", "U+0136">>, <<"U+013A", "U+0139">>,
      <<"U+013C", "U+013B">>, <<"U+013E", "U+013D">>, <<"U+0140", "U+013F">>,
      <<"U+0142", "U+0141">>, <<"U+0144", "U+0143">>, <<"U+0146", "U+0145">>,
      <<"U+0148", "U+0147">>, <<"U+014B", "U+014A">>, <<"U+014D", "U+014C">>,
      <<"U+014F", "U+014E">>, <<"U+0151", "U+0150">>, <<"U+0153", "U+0152">>,
      <<"U+0155", "U+0154">>, <<"U+0157", "U+0156">>, <<"U+0159", "U+0158">>,
      <<"U+015B", "U+015A">>, <<"U+015D", "U+015C">>, <<"U+015F", "U+015E">>,
      <<"U+0161", "U+0160">>, <<"U+0163", "U+0162">>, <<"U+0165", "U+0164">>,
      <<"U+0167", "U+0166">>, <<"U+0169", "U+0168">>, <<"U+016B", "U+016A">>,
      <<"U+016D", "U+016C">>, <<"U+016F", "U+016E">>, <<"U+0171", "U+0170">>,
      <<"U+0173", "U+0172">>, <<"U+0175", "U+0174">>, <<"U+0177", "U+0176">>,
      <<"U+017A", "U+0179">>, <<"U+017C", "U+017B">>, <<"U+017E", "U+017D">>,
      <<"ƀ", "U+0243">>, <<"ƃ", "Ƃ">>, <<"ƅ", "Ƅ">>, <<"ƈ", "Ƈ">>,
      <<"ƌ", "Ƌ">>, <<"ƒ", "Ƒ">>, <<"ƕ", "Ƕ">>, <<"ƙ", "Ƙ">>,
      <<"ƚ", "U+023D">>, <<"ƛ", "Ƛ">>, <<"ƞ", "U+0220">>, <<"ơ", "Ơ">>,
      <<"ƣ", "Ƣ">>, <<"ƥ", "Ƥ">>, <<"ƨ", "Ƨ">>, <<"ƭ", "Ƭ">>, <<"ư", "Ư">>,
      <<"ƴ", "Ƴ">>, <<"ƶ", "Ƶ">>, <<"ƹ", "Ƹ">>, <<"ƽ", "Ƽ">>, <<"ƿ", "Ƿ">>,
      <<"ǅ", "Ǆ">>, <<"ǆ", "Ǆ">>, <<"ǈ", "Ǉ">>, <<"ǉ", "Ǉ">>, <<"ǋ", "Ǌ">>,
      <<"ǌ", "Ǌ">>, <<"ǎ", "Ǎ">>, <<"ǐ", "Ǐ">>, <<"ǒ", "Ǒ">>, <<"ǔ", "Ǔ">>,
      <<"ǖ", "Ǖ">>, <<"ǘ", "Ǘ">>, <<"ǚ", "Ǚ">>, <<"ǜ", "Ǜ">>, <<"ǝ", "Ǝ">>,
      <<"ǟ", "Ǟ">>, <<"ǡ", "Ǡ">>, <<"ǣ", "Ǣ">>, <<"ǥ", "Ǥ">>, <<"ǧ", "Ǧ">>,
      <<"ǩ", "Ǩ">>, <<"ǫ", "Ǫ">>, <<"ǭ", "Ǭ">>, <<"ǯ", "Ǯ">>, <<"ǲ", "Ǳ">>,
      <<"ǳ", "Ǳ">>, <<"ǵ", "Ǵ">>, <<"ǹ", "Ǹ">>, <<"ǻ", "Ǻ">>, <<"ǽ", "Ǽ">>,
      <<"ǿ", "Ǿ">>, <<"U+0201", "U+0200">>, <<"U+0203", "U+0202">>,
      <<"U+0205", "U+0204">>, <<"U+0207", "U+0206">>, <<"U+0209", "U+0208">>,
      <<"U+020B", "U+020A">>, <<"U+020D", "U+020C">>, <<"U+020F", "U+020E">>,
      <<"U+0211", "U+0210">>, <<"U+0213", "U+0212">>, <<"U+0215", "U+0214">>,
      <<"U+0217", "U+0216">>, <<"U+0219", "U+0218">>, <<"U+021B", "U+021A">>,
      <<"U+021D", "U+021C">>, <<"U+021F", "U+021E">>, <<"U+0223", "U+0222">>,
      <<"U+0225", "U+0224">>, <<"U+0227", "U+0226">>, <<"U+0229", "U+0228">>,
      <<"U+022B", "U+022A">>, <<"U+022D", "U+022C">>, <<"U+022F", "U+022E">>,
      <<"U+0231", "U+0230">>, <<"U+0233", "U+0232">>, <<"U+023C", "U+023B">>,
      <<"U+023F", "U+2C7E">>, <<"U+0240", "U+2C7F">>, <<"U+0242", "U+0241">>,
      <<"U+0247", "U+0246">>, <<"U+0249", "U+0248">>, <<"U+024B", "U+024A">>,
      <<"U+024D", "U+024C">>, <<"U+024F", "U+024E">>, <<"U+0250", "U+2C6F">>,
      <<"U+0251", "U+2C6D">>, <<"U+0252", "U+2C70">>, <<"U+0253", "Ɓ">>,
      <<"U+0254", "Ɔ">>, <<"U+0256", "Ɖ">>, <<"U+0257", "Ɗ">>,
      <<"U+0259", "Ə">>, <<"U+025B", "Ɛ">>, <<"U+025C", "Ɜ">>,
      <<"U+0260", "Ɠ">>, <<"U+0261", "Ɡ">>, <<"U+0263", "Ɣ">>,
      <<"U+0264", "Ɤ">>, <<"U+0265", "Ɥ">>, <<"U+0266", "Ɦ">>,
      <<"U+0268", "Ɨ">>, <<"U+0269", "Ɩ">>, <<"U+026A", "Ɪ">>,
      <<"U+026B", "U+2C62">>, <<"U+026C", "Ɬ">>, <<"U+026F", "Ɯ">>,
      <<"U+0271", "U+2C6E">>, <<"U+0272", "Ɲ">>, <<"U+0275", "Ɵ">>,
      <<"U+027D", "U+2C64">>, <<"ʀ", "Ʀ">>, <<"ʂ", "Ʂ">>, <<"ʃ", "Ʃ">>,
      <<"ʇ", "Ʇ">>, <<"ʈ", "Ʈ">>, <<"ʉ", "U+0244">>, <<"ʊ", "Ʊ">>,
      <<"ʋ", "Ʋ">>, <<"ʌ", "U+0245">>, <<"ʒ", "Ʒ">>, <<"ʝ", "Ʝ">>,
      <<"ʞ", "Ʞ">>, <<"U+0345", "Ι">>, <<"U+0371", "U+0370">>,
      <<"U+0373", "U+0372">>, <<"U+0377", "U+0376">>, <<"U+037B", "Ͻ">>,
      <<"U+037C", "Ͼ">>, <<"U+037D", "Ͽ">>, <<"ά", "Ά">>, <<"έ", "Έ">>,
      <<"ή", "Ή">>, <<"ί", "Ί">>, <<"α", "Α">>, <<"β", "Β">>, <<"γ", "Γ">>,
      <<"δ", "Δ">>, <<"ε", "Ε">>, <<"ζ", "Ζ">>, <<"η", "Η">>, <<"θ", "Θ">>,
      <<"ι", "Ι">>, <<"κ", "Κ">>, <<"λ", "Λ">>, <<"μ", "Μ">>, <<"ν", "Ν">>,
      <<"ξ", "Ξ">>, <<"ο", "Ο">>, <<"π", "Π">>, <<"ρ", "Ρ">>, <<"ς", "Σ">>,
      <<"σ", "Σ">>, <<"τ", "Τ">>, <<"υ", "Υ">>, <<"φ", "Φ">>, <<"χ", "Χ">>,
      <<"ψ", "Ψ">>, <<"ω", "Ω">>, <<"ϊ", "Ϊ">>, <<"ϋ", "Ϋ">>, <<"ό", "Ό">>,
      <<"ύ", "Ύ">>, <<"ώ", "Ώ">>, <<"ϐ", "Β">>, <<"ϑ", "Θ">>, <<"ϕ", "Φ">>,
      <<"ϖ", "Π">>, <<"ϗ", "Ϗ">>, <<"ϙ", "Ϙ">>, <<"ϛ", "Ϛ">>, <<"ϝ", "Ϝ">>,
      <<"ϟ", "Ϟ">>, <<"ϡ", "Ϡ">>, <<"ϣ", "Ϣ">>, <<"ϥ", "Ϥ">>, <<"ϧ", "Ϧ">>,
      <<"ϩ", "Ϩ">>, <<"ϫ", "Ϫ">>, <<"ϭ", "Ϭ">>, <<"ϯ", "Ϯ">>, <<"ϰ", "Κ">>,
      <<"ϱ", "Ρ">>, <<"ϲ", "Ϲ">>, <<"ϳ", "U+037F">>, <<"ϵ", "Ε">>,
      <<"ϸ", "Ϸ">>, <<"ϻ", "Ϻ">>, <<"U+0430", "U+0410">>,
      <<"U+0431", "U+0411">>, <<"U+0432", "U+0412">>, <<"U+0433", "U+0413">>,
      <<"U+0434", "U+0414">>, <<"U+0435", "U+0415">>, <<"U+0436", "U+0416">>,
      <<"U+0437", "U+0417">>, <<"U+0438", "U+0418">>, <<"U+0439", "U+0419">>,
      <<"U+043A", "U+041A">>, <<"U+043B", "U+041B">>, <<"U+043C", "U+041C">>,
      <<"U+043D", "U+041D">>, <<"U+043E", "U+041E">>, <<"U+043F", "U+041F">>,
      <<"U+0440", "U+0420">>, <<"U+0441", "U+0421">>, <<"U+0442", "U+0422">>,
      <<"U+0443", "U+0423">>, <<"U+0444", "U+0424">>, <<"U+0445", "U+0425">>,
      <<"U+0446", "U+0426">>, <<"U+0447", "U+0427">>, <<"U+0448", "U+0428">>,
      <<"U+0449", "U+0429">>, <<"U+044A", "U+042A">>, <<"U+044B", "U+042B">>,
      <<"U+044C", "U+042C">>, <<"U+044D", "U+042D">>, <<"U+044E", "U+042E">>,
      <<"U+044F", "U+042F">>, <<"U+0450", "U+0400">>, <<"U+0451", "U+0401">>,
      <<"U+0452", "U+0402">>, <<"U+0453", "U+0403">>, <<"U+0454", "U+0404">>,
      <<"U+0455", "U+0405">>, <<"U+0456", "U+0406">>, <<"U+0457", "U+0407">>,
      <<"U+0458", "U+0408">>, <<"U+0459", "U+0409">>, <<"U+045A", "U+040A">>,
      <<"U+045B", "U+040B">>, <<"U+045C", "U+040C">>, <<"U+045D", "U+040D">>,
      <<"U+045E", "U+040E">>, <<"U+045F", "U+040F">>, <<"U+0461", "U+0460">>,
      <<"U+0463", "U+0462">>, <<"U+0465", "U+0464">>, <<"U+0467", "U+0466">>,
      <<"U+0469", "U+0468">>, <<"U+046B", "U+046A">>, <<"U+046D", "U+046C">>,
      <<"U+046F", "U+046E">>, <<"U+0471", "U+0470">>, <<"U+0473", "U+0472">>,
      <<"U+0475", "U+0474">>, <<"U+0477", "U+0476">>, <<"U+0479", "U+0478">>,
      <<"U+047B", "U+047A">>, <<"U+047D", "U+047C">>, <<"U+047F", "U+047E">>,
      <<"ҁ", "Ҁ">>, <<"ҋ", "Ҋ">>, <<"ҍ", "Ҍ">>, <<"ҏ", "Ҏ">>, <<"ґ", "Ґ">>,
      <<"ғ", "Ғ">>, <<"ҕ", "Ҕ">>, <<"җ", "Җ">>, <<"ҙ", "Ҙ">>, <<"қ", "Қ">>,
      <<"ҝ", "Ҝ">>, <<"ҟ", "Ҟ">>, <<"ҡ", "Ҡ">>, <<"ң", "Ң">>, <<"ҥ", "Ҥ">>,
      <<"ҧ", "Ҧ">>, <<"ҩ", "Ҩ">>, <<"ҫ", "Ҫ">>, <<"ҭ", "Ҭ">>, <<"ү", "Ү">>,
      <<"ұ", "Ұ">>, <<"ҳ", "Ҳ">>, <<"ҵ", "Ҵ">>, <<"ҷ", "Ҷ">>, <<"ҹ", "Ҹ">>,
      <<"һ", "Һ">>, <<"ҽ", "Ҽ">>, <<"ҿ", "Ҿ">>, <<"ӂ", "Ӂ">>, <<"ӄ", "Ӄ">>,
      <<"ӆ", "Ӆ">>, <<"ӈ", "Ӈ">>, <<"ӊ", "Ӊ">>, <<"ӌ", "Ӌ">>, <<"ӎ", "Ӎ">>,
      <<"ӏ", "Ӏ">>, <<"ӑ", "Ӑ">>, <<"ӓ", "Ӓ">>, <<"ӕ", "Ӕ">>, <<"ӗ", "Ӗ">>,
      <<"ә", "Ә">>, <<"ӛ", "Ӛ">>, <<"ӝ", "Ӝ">>, <<"ӟ", "Ӟ">>, <<"ӡ", "Ӡ">>,
      <<"ӣ", "Ӣ">>, <<"ӥ", "Ӥ">>, <<"ӧ", "Ӧ">>, <<"ө", "Ө">>, <<"ӫ", "Ӫ">>,
      <<"ӭ", "Ӭ">>, <<"ӯ", "Ӯ">>, <<"ӱ", "Ӱ">>, <<"ӳ", "Ӳ">>, <<"ӵ", "Ӵ">>,
      <<"ӷ", "Ӷ">>, <<"ӹ", "Ӹ">>, <<"ӻ", "Ӻ">>, <<"ӽ", "Ӽ">>, <<"ӿ", "Ӿ">>,
      <<"U+0501", "U+0500">>, <<"U+0503", "U+0502">>, <<"U+0505", "U+0504">>,
      <<"U+0507", "U+0506">>, <<"U+0509", "U+0508">>, <<"U+050B", "U+050A">>,
      <<"U+050D", "U+050C">>, <<"U+050F", "U+050E">>, <<"U+0511", "U+0510">>,
      <<"U+0513", "U+0512">>, <<"U+0515", "U+0514">>, <<"U+0517", "U+0516">>,
      <<"U+0519", "U+0518">>, <<"U+051B", "U+051A">>, <<"U+051D", "U+051C">>,
      <<"U+051F", "U+051E">>, <<"U+0521", "U+0520">>, <<"U+0523", "U+0522">>,
      <<"U+0525", "U+0524">>, <<"U+0527", "U+0526">>, <<"U+0529", "U+0528">>,
      <<"U+052B", "U+052A">>, <<"U+052D", "U+052C">>, <<"U+052F", "U+052E">>,
      <<"U+0561", "U+0531">>, <<"U+0562", "U+0532">>, <<"U+0563", "U+0533">>,
      <<"U+0564", "U+0534">>, <<"U+0565", "U+0535">>, <<"U+0566", "U+0536">>,
      <<"U+0567", "U+0537">>, <<"U+0568", "U+0538">>, <<"U+0569", "U+0539">>,
      <<"U+056A", "U+053A">>, <<"U+056B", "U+053B">>, <<"U+056C", "U+053C">>,
      <<"U+056D", "U+053D">>, <<"U+056E", "U+053E">>, <<"U+056F", "U+053F">>,
      <<"U+0570", "U+0540">>, <<"U+0571", "U+0541">>, <<"U+0572", "U+0542">>,
      <<"U+0573", "U+0543">>, <<"U+0574", "U+0544">>, <<"U+0575", "U+0545">>,
      <<"U+0576", "U+0546">>, <<"U+0577", "U+0547">>, <<"U+0578", "U+0548">>,
      <<"U+0579", "U+0549">>, <<"U+057A", "U+054A">>, <<"U+057B", "U+054B">>,
      <<"U+057C", "U+054C">>, <<"U+057D", "U+054D">>, <<"U+057E", "U+054E">>,
      <<"U+057F", "U+054F">>, <<"ր", "U+0550">>, <<"ց", "U+0551">>,
      <<"ւ", "U+0552">>, <<"փ", "U+0553">>, <<"ք", "U+0554">>,
      <<"օ", "U+0555">>, <<"ֆ", "U+0556">>, <<"ა", "Ა">>, <<"ბ", "Ბ">>,
      <<"გ", "Გ">>, <<"დ", "Დ">>, <<"ე", "Ე">>, <<"ვ", "Ვ">>, <<"ზ", "Ზ">>,
      <<"თ", "Თ">>, <<"ი", "Ი">>, <<"კ", "Კ">>, <<"ლ", "Ლ">>, <<"მ", "Მ">>,
      <<"ნ", "Ნ">>, <<"ო", "Ო">>, <<"პ", "Პ">>, <<"ჟ", "Ჟ">>, <<"რ", "Რ">>,
      <<"ს", "Ს">>, <<"ტ", "Ტ">>, <<"უ", "Უ">>, <<"ფ", "Ფ">>, <<"ქ", "Ქ">>,
      <<"ღ", "Ღ">>, <<"ყ", "Ყ">>, <<"შ", "Შ">>, <<"ჩ", "Ჩ">>, <<"ც", "Ც">>,
      <<"ძ", "Ძ">>, <<"წ", "Წ">>, <<"ჭ", "Ჭ">>, <<"ხ", "Ხ">>, <<"ჯ", "Ჯ">>,
      <<"ჰ", "Ჰ">>, <<"ჱ", "Ჱ">>, <<"ჲ", "Ჲ">>, <<"ჳ", "Ჳ">>, <<"ჴ", "Ჴ">>,
      <<"ჵ", "Ჵ">>, <<"ჶ", "Ჶ">>, <<"ჷ", "Ჷ">>, <<"ჸ", "Ჸ">>, <<"ჹ", "Ჹ">>,
      <<"ჺ", "Ჺ">>, <<"ჽ", "Ჽ">>, <<"ჾ", "Ჾ">>, <<"ჿ", "Ჿ">>, <<"ᏸ", "Ᏸ">>,
      <<"ᏹ", "Ᏹ">>, <<"ᏺ", "Ᏺ">>, <<"ᏻ", "Ᏻ">>, <<"ᏼ", "Ᏼ">>, <<"ᏽ", "Ᏽ">>,
      <<"ᲀ", "U+0412">>, <<"ᲁ", "U+0414">>, <<"ᲂ", "U+041E">>,
      <<"ᲃ", "U+0421">>, <<"ᲄ", "U+0422">>, <<"ᲅ", "U+0422">>,
      <<"ᲆ", "U+042A">>, <<"ᲇ", "U+0462">>, <<"ᲈ", "U+A64A">>, <<"ᲊ", "Ᲊ">>,
      <<"U+1D79", "U+A77D">>, <<"U+1D7D", "U+2C63">>, <<"ᶎ", "Ᶎ">>,
      <<"U+1E01", "U+1E00">>, <<"U+1E03", "U+1E02">>, <<"U+1E05", "U+1E04">>,
      <<"U+1E07", "U+1E06">>, <<"U+1E09", "U+1E08">>, <<"U+1E0B", "U+1E0A">>,
      <<"U+1E0D", "U+1E0C">>, <<"U+1E0F", "U+1E0E">>, <<"U+1E11", "U+1E10">>,
      <<"U+1E13", "U+1E12">>, <<"U+1E15", "U+1E14">>, <<"U+1E17", "U+1E16">>,
      <<"U+1E19", "U+1E18">>, <<"U+1E1B", "U+1E1A">>, <<"U+1E1D", "U+1E1C">>,
      <<"U+1E1F", "U+1E1E">>, <<"U+1E21", "U+1E20">>, <<"U+1E23", "U+1E22">>,
      <<"U+1E25", "U+1E24">>, <<"U+1E27", "U+1E26">>, <<"U+1E29", "U+1E28">>,
      <<"U+1E2B", "U+1E2A">>, <<"U+1E2D", "U+1E2C">>, <<"U+1E2F", "U+1E2E">>,
      <<"U+1E31", "U+1E30">>, <<"U+1E33", "U+1E32">>, <<"U+1E35", "U+1E34">>,
      <<"U+1E37", "U+1E36">>, <<"U+1E39", "U+1E38">>, <<"U+1E3B", "U+1E3A">>,
      <<"U+1E3D", "U+1E3C">>, <<"U+1E3F", "U+1E3E">>, <<"U+1E41", "U+1E40">>,
      <<"U+1E43", "U+1E42">>, <<"U+1E45", "U+1E44">>, <<"U+1E47", "U+1E46">>,
      <<"U+1E49", "U+1E48">>, <<"U+1E4B", "U+1E4A">>, <<"U+1E4D", "U+1E4C">>,
      <<"U+1E4F", "U+1E4E">>, <<"U+1E51", "U+1E50">>, <<"U+1E53", "U+1E52">>,
      <<"U+1E55", "U+1E54">>, <<"U+1E57", "U+1E56">>, <<"U+1E59", "U+1E58">>,
      <<"U+1E5B", "U+1E5A">>, <<"U+1E5D", "U+1E5C">>, <<"U+1E5F", "U+1E5E">>,
      <<"U+1E61", "U+1E60">>, <<"U+1E63", "U+1E62">>, <<"U+1E65", "U+1E64">>,
      <<"U+1E67", "U+1E66">>, <<"U+1E69", "U+1E68">>, <<"U+1E6B", "U+1E6A">>,
      <<"U+1E6D", "U+1E6C">>, <<"U+1E6F", "U+1E6E">>, <<"U+1E71", "U+1E70">>,
      <<"U+1E73", "U+1E72">>, <<"U+1E75", "U+1E74">>, <<"U+1E77", "U+1E76">>,
      <<"U+1E79", "U+1E78">>, <<"U+1E7B", "U+1E7A">>, <<"U+1E7D", "U+1E7C">>,
      <<"U+1E7F", "U+1E7E">>, <<"ẁ", "Ẁ">>, <<"ẃ", "Ẃ">>, <<"ẅ", "Ẅ">>,
      <<"ẇ", "Ẇ">>, <<"ẉ", "Ẉ">>, <<"ẋ", "Ẋ">>, <<"ẍ", "Ẍ">>, <<"ẏ", "Ẏ">>,
      <<"ẑ", "Ẑ">>, <<"ẓ", "Ẓ">>, <<"ẕ", "Ẕ">>, <<"ẛ", "U+1E60">>,
      <<"ạ", "Ạ">>, <<"ả", "Ả">>, <<"ấ", "Ấ">>, <<"ầ", "Ầ">>, <<"ẩ", "Ẩ">>,
      <<"ẫ", "Ẫ">>, <<"ậ", "Ậ">>, <<"ắ", "Ắ">>, <<"ằ", "Ằ">>, <<"ẳ", "Ẳ">>,
      <<"ẵ", "Ẵ">>, <<"ặ", "Ặ">>, <<"ẹ", "Ẹ">>, <<"ẻ", "Ẻ">>, <<"ẽ", "Ẽ">>,
      <<"ế", "Ế">>, <<"ề", "Ề">>, <<"ể", "Ể">>, <<"ễ", "Ễ">>, <<"ệ", "Ệ">>,
      <<"ỉ", "Ỉ">>, <<"ị", "Ị">>, <<"ọ", "Ọ">>, <<"ỏ", "Ỏ">>, <<"ố", "Ố">>,
      <<"ồ", "Ồ">>, <<"ổ", "Ổ">>, <<"ỗ", "Ỗ">>, <<"ộ", "Ộ">>, <<"ớ", "Ớ">>,
      <<"ờ", "Ờ">>, <<"ở", "Ở">>, <<"ỡ", "Ỡ">>, <<"ợ", "Ợ">>, <<"ụ", "Ụ">>,
      <<"ủ", "Ủ">>, <<"ứ", "Ứ">>, <<"ừ", "Ừ">>, <<"ử", "Ử">>, <<"ữ", "Ữ">>,
      <<"ự", "Ự">>, <<"ỳ", "Ỳ">>, <<"ỵ", "Ỵ">>, <<"ỷ", "Ỷ">>, <<"ỹ", "Ỹ">>,
      <<"ỻ", "Ỻ">>, <<"ỽ", "Ỽ">>, <<"ỿ", "Ỿ">>, <<"U+1F00", "U+1F08">>,
      <<"U+1F01", "U+1F09">>, <<"U+1F02", "U+1F0A">>, <<"U+1F03", "U+1F0B">>,
      <<"U+1F04", "U+1F0C">>, <<"U+1F05", "U+1F0D">>, <<"U+1F06", "U+1F0E">>,
      <<"U+1F07", "U+1F0F">>, <<"U+1F10", "U+1F18">>, <<"U+1F11", "U+1F19">>,
      <<"U+1F12", "U+1F1A">>, <<"U+1F13", "U+1F1B">>, <<"U+1F14", "U+1F1C">>,
      <<"U+1F15", "U+1F1D">>, <<"U+1F20", "U+1F28">>, <<"U+1F21", "U+1F29">>,
      <<"U+1F22", "U+1F2A">>, <<"U+1F23", "U+1F2B">>, <<"U+1F24", "U+1F2C">>,
      <<"U+1F25", "U+1F2D">>, <<"U+1F26", "U+1F2E">>, <<"U+1F27", "U+1F2F">>,
      <<"U+1F30", "U+1F38">>, <<"U+1F31", "U+1F39">>, <<"U+1F32", "U+1F3A">>,
      <<"U+1F33", "U+1F3B">>, <<"U+1F34", "U+1F3C">>, <<"U+1F35", "U+1F3D">>,
      <<"U+1F36", "U+1F3E">>, <<"U+1F37", "U+1F3F">>, <<"U+1F40", "U+1F48">>,
      <<"U+1F41", "U+1F49">>, <<"U+1F42", "U+1F4A">>, <<"U+1F43", "U+1F4B">>,
      <<"U+1F44", "U+1F4C">>, <<"U+1F45", "U+1F4D">>, <<"U+1F51", "U+1F59">>,
      <<"U+1F53", "U+1F5B">>, <<"U+1F55", "U+1F5D">>, <<"U+1F57", "U+1F5F">>,
      <<"U+1F60", "U+1F68">>, <<"U+1F61", "U+1F69">>, <<"U+1F62", "U+1F6A">>,
      <<"U+1F63", "U+1F6B">>, <<"U+1F64", "U+1F6C">>, <<"U+1F65", "U+1F6D">>,
      <<"U+1F66", "U+1F6E">>, <<"U+1F67", "U+1F6F">>, <<"U+1F70", "Ὰ">>,
      <<"U+1F71", "Ά">>, <<"U+1F72", "Ὲ">>, <<"U+1F73", "Έ">>,
      <<"U+1F74", "Ὴ">>, <<"U+1F75", "Ή">>, <<"U+1F76", "Ὶ">>,
      <<"U+1F77", "Ί">>, <<"U+1F78", "Ὸ">>, <<"U+1F79", "Ό">>,
      <<"U+1F7A", "Ὺ">>, <<"U+1F7B", "Ύ">>, <<"U+1F7C", "Ὼ">>,
      <<"U+1F7D", "Ώ">>, <<"ᾰ", "Ᾰ">>, <<"ᾱ", "Ᾱ">>, <<"ι", "Ι">>,
      <<"ῐ", "Ῐ">>, <<"ῑ", "Ῑ">>, <<"ῠ", "Ῠ">>, <<"ῡ", "Ῡ">>, <<"ῥ", "Ῥ">>,
      <<"U+214E", "U+2132">>, <<"U+2170", "U+2160">>, <<"U+2171", "U+2161">>,
      <<"U+2172", "U+2162">>, <<"U+2173", "U+2163">>, <<"U+2174", "U+2164">>,
      <<"U+2175", "U+2165">>, <<"U+2176", "U+2166">>, <<"U+2177", "U+2167">>,
      <<"U+2178", "U+2168">>, <<"U+2179", "U+2169">>, <<"U+217A", "U+216A">>,
      <<"U+217B", "U+216B">>, <<"U+217C", "U+216C">>, <<"U+217D", "U+216D">>,
      <<"U+217E", "U+216E">>, <<"U+217F", "U+216F">>, <<"ↄ", "Ↄ">>,
      <<"ⓐ", "Ⓐ">>, <<"ⓑ", "Ⓑ">>, <<"ⓒ", "Ⓒ">>, <<"ⓓ", "Ⓓ">>, <<"ⓔ", "Ⓔ">>,
      <<"ⓕ", "Ⓕ">>, <<"ⓖ", "Ⓖ">>, <<"ⓗ", "Ⓗ">>, <<"ⓘ", "Ⓘ">>, <<"ⓙ", "Ⓙ">>,
      <<"ⓚ", "Ⓚ">>, <<"ⓛ", "Ⓛ">>, <<"ⓜ", "Ⓜ">>, <<"ⓝ", "Ⓝ">>, <<"ⓞ", "Ⓞ">>,
      <<"ⓟ", "Ⓟ">>, <<"ⓠ", "Ⓠ">>, <<"ⓡ", "Ⓡ">>, <<"ⓢ", "Ⓢ">>, <<"ⓣ", "Ⓣ">>,
      <<"ⓤ", "Ⓤ">>, <<"ⓥ", "Ⓥ">>, <<"ⓦ", "Ⓦ">>, <<"ⓧ", "Ⓧ">>, <<"ⓨ", "Ⓨ">>,
      <<"ⓩ", "Ⓩ">>, <<"U+2C30", "U+2C00">>, <<"U+2C31", "U+2C01">>,
      <<"U+2C32", "U+2C02">>, <<"U+2C33", "U+2C03">>, <<"U+2C34", "U+2C04">>,
      <<"U+2C35", "U+2C05">>, <<"U+2C36", "U+2C06">>, <<"U+2C37", "U+2C07">>,
      <<"U+2C38", "U+2C08">>, <<"U+2C39", "U+2C09">>, <<"U+2C3A", "U+2C0A">>,
      <<"U+2C3B", "U+2C0B">>, <<"U+2C3C", "U+2C0C">>, <<"U+2C3D", "U+2C0D">>,
      <<"U+2C3E", "U+2C0E">>, <<"U+2C3F", "U+2C0F">>, <<"U+2C40", "U+2C10">>,
      <<"U+2C41", "U+2C11">>, <<"U+2C42", "U+2C12">>, <<"U+2C43", "U+2C13">>,
      <<"U+2C44", "U+2C14">>, <<"U+2C45", "U+2C15">>, <<"U+2C46", "U+2C16">>,
      <<"U+2C47", "U+2C17">>, <<"U+2C48", "U+2C18">>, <<"U+2C49", "U+2C19">>,
      <<"U+2C4A", "U+2C1A">>, <<"U+2C4B", "U+2C1B">>, <<"U+2C4C", "U+2C1C">>,
      <<"U+2C4D", "U+2C1D">>, <<"U+2C4E", "U+2C1E">>, <<"U+2C4F", "U+2C1F">>,
      <<"U+2C50", "U+2C20">>, <<"U+2C51", "U+2C21">>, <<"U+2C52", "U+2C22">>,
      <<"U+2C53", "U+2C23">>, <<"U+2C54", "U+2C24">>, <<"U+2C55", "U+2C25">>,
      <<"U+2C56", "U+2C26">>, <<"U+2C57", "U+2C27">>, <<"U+2C58", "U+2C28">>,
      <<"U+2C59", "U+2C29">>, <<"U+2C5A", "U+2C2A">>, <<"U+2C5B", "U+2C2B">>,
      <<"U+2C5C", "U+2C2C">>, <<"U+2C5D", "U+2C2D">>, <<"U+2C5E", "U+2C2E">>,
      <<"U+2C5F", "U+2C2F">>, <<"U+2C61", "U+2C60">>, <<"U+2C65", "U+023A">>,
      <<"U+2C66", "U+023E">>, <<"U+2C68", "U+2C67">>, <<"U+2C6A", "U+2C69">>,
      <<"U+2C6C", "U+2C6B">>, <<"U+2C73", "U+2C72">>, <<"U+2C76", "U+2C75">>,
      <<"ⲁ", "Ⲁ">>, <<"ⲃ", "Ⲃ">>, <<"ⲅ", "Ⲅ">>, <<"ⲇ", "Ⲇ">>, <<"ⲉ", "Ⲉ">>,
      <<"ⲋ", "Ⲋ">>, <<"ⲍ", "Ⲍ">>, <<"ⲏ", "Ⲏ">>, <<"ⲑ", "Ⲑ">>, <<"ⲓ", "Ⲓ">>,
      <<"ⲕ", "Ⲕ">>, <<"ⲗ", "Ⲗ">>, <<"ⲙ", "Ⲙ">>, <<"ⲛ", "Ⲛ">>, <<"ⲝ", "Ⲝ">>,
      <<"ⲟ", "Ⲟ">>, <<"ⲡ", "Ⲡ">>, <<"ⲣ", "Ⲣ">>, <<"ⲥ", "Ⲥ">>, <<"ⲧ", "Ⲧ">>,
      <<"ⲩ", "Ⲩ">>, <<"ⲫ", "Ⲫ">>, <<"ⲭ", "Ⲭ">>, <<"ⲯ", "Ⲯ">>, <<"ⲱ", "Ⲱ">>,
      <<"ⲳ", "Ⲳ">>, <<"ⲵ", "Ⲵ">>, <<"ⲷ", "Ⲷ">>, <<"ⲹ", "Ⲹ">>, <<"ⲻ", "Ⲻ">>,
      <<"ⲽ", "Ⲽ">>, <<"ⲿ", "Ⲿ">>, <<"ⳁ", "Ⳁ">>, <<"ⳃ", "Ⳃ">>, <<"ⳅ", "Ⳅ">>,
      <<"ⳇ", "Ⳇ">>, <<"ⳉ", "Ⳉ">>, <<"ⳋ", "Ⳋ">>, <<"ⳍ", "Ⳍ">>, <<"ⳏ", "Ⳏ">>,
      <<"ⳑ", "Ⳑ">>, <<"ⳓ", "Ⳓ">>, <<"ⳕ", "Ⳕ">>, <<"ⳗ", "Ⳗ">>, <<"ⳙ", "Ⳙ">>,
      <<"ⳛ", "Ⳛ">>, <<"ⳝ", "Ⳝ">>, <<"ⳟ", "Ⳟ">>, <<"ⳡ", "Ⳡ">>, <<"ⳣ", "Ⳣ">>,
      <<"ⳬ", "Ⳬ">>, <<"ⳮ", "Ⳮ">>, <<"ⳳ", "Ⳳ">>, <<"U+2D00", "Ⴀ">>,
      <<"U+2D01", "Ⴁ">>, <<"U+2D02", "Ⴂ">>, <<"U+2D03", "Ⴃ">>,
      <<"U+2D04", "Ⴄ">>, <<"U+2D05", "Ⴅ">>, <<"U+2D06", "Ⴆ">>,
      <<"U+2D07", "Ⴇ">>, <<"U+2D08", "Ⴈ">>, <<"U+2D09", "Ⴉ">>,
      <<"U+2D0A", "Ⴊ">>, <<"U+2D0B", "Ⴋ">>, <<"U+2D0C", "Ⴌ">>,
      <<"U+2D0D", "Ⴍ">>, <<"U+2D0E", "Ⴎ">>, <<"U+2D0F", "Ⴏ">>,
      <<"U+2D10", "Ⴐ">>, <<"U+2D11", "Ⴑ">>, <<"U+2D12", "Ⴒ">>,
      <<"U+2D13", "Ⴓ">>, <<"U+2D14", "Ⴔ">>, <<"U+2D15", "Ⴕ">>,
      <<"U+2D16", "Ⴖ">>, <<"U+2D17", "Ⴗ">>, <<"U+2D18", "Ⴘ">>,
      <<"U+2D19", "Ⴙ">>, <<"U+2D1A", "Ⴚ">>, <<"U+2D1B", "Ⴛ">>,
      <<"U+2D1C", "Ⴜ">>, <<"U+2D1D", "Ⴝ">>, <<"U+2D1E", "Ⴞ">>,
      <<"U+2D1F", "Ⴟ">>, <<"U+2D20", "Ⴠ">>, <<"U+2D21", "Ⴡ">>,
      <<"U+2D22", "Ⴢ">>, <<"U+2D23", "Ⴣ">>, <<"U+2D24", "Ⴤ">>,
      <<"U+2D25", "Ⴥ">>, <<"U+2D27", "Ⴧ">>, <<"U+2D2D", "Ⴭ">>,
      <<"U+A641", "U+A640">>, <<"U+A643", "U+A642">>, <<"U+A645", "U+A644">>,
      <<"U+A647", "U+A646">>, <<"U+A649", "U+A648">>, <<"U+A64B", "U+A64A">>,
      <<"U+A64D", "U+A64C">>, <<"U+A64F", "U+A64E">>, <<"U+A651", "U+A650">>,
      <<"U+A653", "U+A652">>, <<"U+A655", "U+A654">>, <<"U+A657", "U+A656">>,
      <<"U+A659", "U+A658">>, <<"U+A65B", "U+A65A">>, <<"U+A65D", "U+A65C">>,
      <<"U+A65F", "U+A65E">>, <<"U+A661", "U+A660">>, <<"U+A663", "U+A662">>,
      <<"U+A665", "U+A664">>, <<"U+A667", "U+A666">>, <<"U+A669", "U+A668">>,
      <<"U+A66B", "U+A66A">>, <<"U+A66D", "U+A66C">>, <<"ꚁ", "Ꚁ">>,
      <<"ꚃ", "Ꚃ">>, <<"ꚅ", "Ꚅ">>, <<"ꚇ", "Ꚇ">>, <<"ꚉ", "Ꚉ">>, <<"ꚋ", "Ꚋ">>,
      <<"ꚍ", "Ꚍ">>, <<"ꚏ", "Ꚏ">>, <<"ꚑ", "Ꚑ">>, <<"ꚓ", "Ꚓ">>, <<"ꚕ", "Ꚕ">>,
      <<"ꚗ", "Ꚗ">>, <<"ꚙ", "Ꚙ">>, <<"ꚛ", "Ꚛ">>, <<"U+A723", "U+A722">>,
      <<"U+A725", "U+A724">>, <<"U+A727", "U+A726">>, <<"U+A729", "U+A728">>,
      <<"U+A72B", "U+A72A">>, <<"U+A72D", "U+A72C">>, <<"U+A72F", "U+A72E">>,
      <<"U+A733", "U+A732">>, <<"U+A735", "U+A734">>, <<"U+A737", "U+A736">>,
      <<"U+A739", "U+A738">>, <<"U+A73B", "U+A73A">>, <<"U+A73D", "U+A73C">>,
      <<"U+A73F", "U+A73E">>, <<"U+A741", "U+A740">>, <<"U+A743", "U+A742">>,
      <<"U+A745", "U+A744">>, <<"U+A747", "U+A746">>, <<"U+A749", "U+A748">>,
      <<"U+A74B", "U+A74A">>, <<"U+A74D", "U+A74C">>, <<"U+A74F", "U+A74E">>,
      <<"U+A751", "U+A750">>, <<"U+A753", "U+A752">>, <<"U+A755", "U+A754">>,
      <<"U+A757", "U+A756">>, <<"U+A759", "U+A758">>, <<"U+A75B", "U+A75A">>,
      <<"U+A75D", "U+A75C">>, <<"U+A75F", "U+A75E">>, <<"U+A761", "U+A760">>,
      <<"U+A763", "U+A762">>, <<"U+A765", "U+A764">>, <<"U+A767", "U+A766">>,
      <<"U+A769", "U+A768">>, <<"U+A76B", "U+A76A">>, <<"U+A76D", "U+A76C">>,
      <<"U+A76F", "U+A76E">>, <<"U+A77A", "U+A779">>, <<"U+A77C", "U+A77B">>,
      <<"U+A77F", "U+A77E">>, <<"ꞁ", "Ꞁ">>, <<"ꞃ", "Ꞃ">>, <<"ꞅ", "Ꞅ">>,
      <<"ꞇ", "Ꞇ">>, <<"ꞌ", "Ꞌ">>, <<"ꞑ", "Ꞑ">>, <<"ꞓ", "Ꞓ">>, <<"ꞔ", "Ꞔ">>,
      <<"ꞗ", "Ꞗ">>, <<"ꞙ", "Ꞙ">>, <<"ꞛ", "Ꞛ">>, <<"ꞝ", "Ꞝ">>, <<"ꞟ", "Ꞟ">>,
      <<"ꞡ", "Ꞡ">>, <<"ꞣ", "Ꞣ">>, <<"ꞥ", "Ꞥ">>, <<"ꞧ", "Ꞧ">>, <<"ꞩ", "Ꞩ">>,
      <<"ꞵ", "Ꞵ">>, <<"ꞷ", "Ꞷ">>, <<"ꞹ", "Ꞹ">>, <<"ꞻ", "Ꞻ">>, <<"ꞽ", "Ꞽ">>,
      <<"ꞿ", "Ꞿ">>, <<"ꟁ", "Ꟁ">>, <<"ꟃ", "Ꟃ">>, <<"ꟈ", "Ꟈ">>, <<"ꟊ", "Ꟊ">>,
      <<"ꟍ", "Ꟍ">>, <<"꟏", "꟎">>, <<"ꟑ", "Ꟑ">>, <<"ꟓ", "꟒">>, <<"ꟕ", "꟔">>,
      <<"ꟗ", "Ꟗ">>, <<"ꟙ", "Ꟙ">>, <<"ꟛ", "Ꟛ">>, <<"ꟶ", "Ꟶ">>,
      <<"U+AB53", "Ꭓ">>, <<"U+AB70", "Ꭰ">>, <<"U+AB71", "Ꭱ">>,
      <<"U+AB72", "Ꭲ">>, <<"U+AB73", "Ꭳ">>, <<"U+AB74", "Ꭴ">>,
      <<"U+AB75", "Ꭵ">>, <<"U+AB76", "Ꭶ">>, <<"U+AB77", "Ꭷ">>,
      <<"U+AB78", "Ꭸ">>, <<"U+AB79", "Ꭹ">>, <<"U+AB7A", "Ꭺ">>,
      <<"U+AB7B", "Ꭻ">>, <<"U+AB7C", "Ꭼ">>, <<"U+AB7D", "Ꭽ">>,
      <<"U+AB7E", "Ꭾ">>, <<"U+AB7F", "Ꭿ">>, <<"ꮀ", "Ꮀ">>, <<"ꮁ", "Ꮁ">>,
      <<"ꮂ", "Ꮂ">>, <<"ꮃ", "Ꮃ">>, <<"ꮄ", "Ꮄ">>, <<"ꮅ", "Ꮅ">>, <<"ꮆ", "Ꮆ">>,
      <<"ꮇ", "Ꮇ">>, <<"ꮈ", "Ꮈ">>, <<"ꮉ", "Ꮉ">>, <<"ꮊ", "Ꮊ">>, <<"ꮋ", "Ꮋ">>,
      <<"ꮌ", "Ꮌ">>, <<"ꮍ", "Ꮍ">>, <<"ꮎ", "Ꮎ">>, <<"ꮏ", "Ꮏ">>, <<"ꮐ", "Ꮐ">>,
      <<"ꮑ", "Ꮑ">>, <<"ꮒ", "Ꮒ">>, <<"ꮓ", "Ꮓ">>, <<"ꮔ", "Ꮔ">>, <<"ꮕ", "Ꮕ">>,
      <<"ꮖ", "Ꮖ">>, <<"ꮗ", "Ꮗ">>, <<"ꮘ", "Ꮘ">>, <<"ꮙ", "Ꮙ">>, <<"ꮚ", "Ꮚ">>,
      <<"ꮛ", "Ꮛ">>, <<"ꮜ", "Ꮜ">>, <<"ꮝ", "Ꮝ">>, <<"ꮞ", "Ꮞ">>, <<"ꮟ", "Ꮟ">>,
      <<"ꮠ", "Ꮠ">>, <<"ꮡ", "Ꮡ">>, <<"ꮢ", "Ꮢ">>, <<"ꮣ", "Ꮣ">>, <<"ꮤ", "Ꮤ">>,
      <<"ꮥ", "Ꮥ">>, <<"ꮦ", "Ꮦ">>, <<"ꮧ", "Ꮧ">>, <<"ꮨ", "Ꮨ">>, <<"ꮩ", "Ꮩ">>,
      <<"ꮪ", "Ꮪ">>, <<"ꮫ", "Ꮫ">>, <<"ꮬ", "Ꮬ">>, <<"ꮭ", "Ꮭ">>, <<"ꮮ", "Ꮮ">>,
      <<"ꮯ", "Ꮯ">>, <<"ꮰ", "Ꮰ">>, <<"ꮱ", "Ꮱ">>, <<"ꮲ", "Ꮲ">>, <<"ꮳ", "Ꮳ">>,
      <<"ꮴ", "Ꮴ">>, <<"ꮵ", "Ꮵ">>, <<"ꮶ", "Ꮶ">>, <<"ꮷ", "Ꮷ">>, <<"ꮸ", "Ꮸ">>,
      <<"ꮹ", "Ꮹ">>, <<"ꮺ", "Ꮺ">>, <<"ꮻ", "Ꮻ">>, <<"ꮼ", "Ꮼ">>, <<"ꮽ", "Ꮽ">>,
      <<"ꮾ", "Ꮾ">>, <<"ꮿ", "Ꮿ">>, <<"U+FF41", "U+FF21">>,
      <<"U+FF42", "U+FF22">>, <<"U+FF43", "U+FF23">>, <<"U+FF44", "U+FF24">>,
      <<"U+FF45", "U+FF25">>, <<"U+FF46", "U+FF26">>, <<"U+FF47", "U+FF27">>,
      <<"U+FF48", "U+FF28">>, <<"U+FF49", "U+FF29">>, <<"U+FF4A", "U+FF2A">>,
      <<"U+FF4B", "U+FF2B">>, <<"U+FF4C", "U+FF2C">>, <<"U+FF4D", "U+FF2D">>,
      <<"U+FF4E", "U+FF2E">>, <<"U+FF4F", "U+FF2F">>, <<"U+FF50", "U+FF30">>,
      <<"U+FF51", "U+FF31">>, <<"U+FF52", "U+FF32">>, <<"U+FF53", "U+FF33">>,
      <<"U+FF54", "U+FF34">>, <<"U+FF55", "U+FF35">>, <<"U+FF56", "U+FF36">>,
      <<"U+FF57", "U+FF37">>, <<"U+FF58", "U+FF38">>, <<"U+FF59", "U+FF39">>,
      <<"U+FF5A", "U+FF3A">> }

CanonicalOf ==
    [ c \in { p[1] : p \in CanonicalPairs } |->
        (CHOOSE p \in CanonicalPairs : p[1] = c)[2] ]

\* Canonicalize(ch) of the regular expression: two characters match under
\* the i flag when their canonical characters are equal.
Canonicalize(c) == IF c \in DOMAIN CanonicalOf THEN CanonicalOf[c] ELSE c

\* The (1-based) indices at which the escaped (hence literal) pattern w,
\* compiled with the i flag, matches in s.
MatchStarts(s, w) ==
    { i \in 1..(Len(s) - Len(w) + 1) :
        \A j \in 1..Len(w) : Canonicalize(s[i + j - 1]) = Canonicalize(w[j]) }

MinOf(S) == CHOOSE x \in S : \A y \in S : x <= y

\* A scan that resumes one character after the start of the previous match.
matchesFromOverlapping(starts, width, from) ==
    Cardinality({ i \in starts : i >= from })

\* String.prototype.match with a g pattern: the matches found scanning from the
\* left, each search resuming where the previous match ended.
RECURSIVE matchesFrom(_, _, _)
matchesFrom(starts, width, from) ==
    IF { i \in starts : i >= from } = {} THEN 0
    ELSE 1 + matchesFrom(starts, width, MinOf({ i \in starts : i >= from }) + width)

\* (chunkLower.match(regex) || []).length
matchCount(s, w) == matchesFrom(MatchStarts(s, w), Len(w), 1)

\* The loop "for (const word of questionWords) score += matches.length".
RECURSIVE rawScore(_, _, _)
rawScore(chunkLower, qw, k) ==
    IF k > Len(qw) THEN 0
    ELSE matchCount(chunkLower, qw[k]) + rawScore(chunkLower, qw, k + 1)

\* scoreChunk dividing by the word count instead of its square root.
scoreChunkByWordCount(c, q) ==
    IF Len(questionWords(q)) = 0 THEN [num |-> 0, den |-> 1]
    ELSE [num |-> rawScore(toLowerCase(c), questionWords(q), 1),
          den |-> Len(split(c)) * Len(split(c))]

\* scoreChunk: the quotient score / Math.sqrt(words) as [num |-> score, den |-> words];
\* the early "return 0" is the quotient 0 / Math.sqrt(1).
scoreChunk(c, q) ==
    IF Len(questionWords(q)) = 0 THEN [num |-> 0, den |-> 1]
    ELSE [num |-> rawScore(toLowerCase(c), questionWords(q), 1),
          den |-> Len(split(c))]

\* A score is a number of JavaScript, a double: score / Math.sqrt(words) is
\* the quotient rounded of the root rounded.  The two roundings are worked
\* out on naturals of BigLen digits to the base 2^15, lowest digit first.
MantissaBits == 53

BigLen == 4

Base == 2 ^ 15

RECURSIVE carryFrom(_, _, _)
carryFrom(raw, i, c) ==
    IF i > Len(raw) THEN <<>>
    ELSE <<(raw[i] + c) % Base>> \o carryFrom(raw, i + 1, (raw[i] + c) \div Base)

big(n) ==
    [ i \in 1..BigLen |->
        IF i = 1 THEN n % Base
        ELSE IF i = 2 THEN (n \div Base) % Base
        ELSE IF i = 3 THEN (n \div Base) \div Base
        ELSE 0 ]

bigAdd(x, y) == carryFrom([ i \in 1..BigLen |-> x[i] + y[i] ], 1, 0)

\* x - y for x >= y.
bigSub(x, y) == carryFrom([ i \in 1..BigLen |-> x[i] - y[i] ], 1, 0)

\* x * 2^t.
bigShl(x, t) ==
    carryFrom([ i \in 1..BigLen |->
                  IF i > t \div 15 THEN x[i - t \div 15] * 2 ^ (t % 15) ELSE 0 ],
              1, 0)

bigGeq(x, y) ==
    LET D == { i \in 1..BigLen : x[i] # y[i] }
    IN  D = {} \/ \A i \in D : (\A j \in D : j <= i) => x[i] > y[i]

\* floor(log2(n)) for n >= 1.
log2(n) == CHOOSE e \in 0..30 : 2 ^ e <= n /\ (e = 30 \/ n < 2 ^ (e + 1))

\* floor(sqrt(m)) for m >= 1.
isqrt(m) == CHOOSE r \in 0..m : r * r <= m /\ (r + 1) * (r + 1) > m

\* One more bit of a square root: v.s is the root so far and v.r what is left
\* of the radicand, which has only zeros to bring down.
sqrtStep(v) ==
    LET r4 == bigShl(v.r, 2)
        t  == bigAdd(bigShl(v.s, 2), big(1))
    IN  IF bigGeq(r4, t)
        THEN [ s |-> bigAdd(bigShl(v.s, 1), big(1)), r |-> bigSub(r4, t) ]
        ELSE [ s |-> bigShl(v.s, 1), r |-> r4 ]

sqrtStep8(v) ==
    sqrtStep(sqrtStep(sqrtStep(sqrtStep(sqrtStep(sqrtStep(sqrtStep(sqrtStep(v))))))))

\* n more bits, eight at a time while there are as many.
RECURSIVE sqrtBits(_, _)
sqrtBits(v, n) ==
    IF n = 0 THEN v
    ELSE IF n >= 8 THEN Only({ sqrtBits(w, n - 8) : w \in { sqrtStep8(v) } })
    ELSE Only({ sqrtBits(w, n - 1) : w \in { sqrtStep(v) } })

\* Math.sqrt(m) for an integer m >= 1, as mant * 2^exp with mant of 53 bits:
\* the root of m * 4^k, rounded to the nearest.
sqrtDouble(m) ==
    LET k == (MantissaBits - 1) - log2(m) \div 2
        f == sqrtBits([ s |-> big(isqrt(m)), r |-> big(m - isqrt(m) * isqrt(m)) ], k)
    IN  [ mant |-> IF bigGeq(f.s, f.r) THEN f.s ELSE bigAdd(f.s, big(1)),
          exp |-> 0 - k ]

\* One more bit of a quotient by d: v.q is the quotient so far and v.r what is
\* left of the dividend, which has only zeros to bring down.
divStep(v, d) ==
    LET r2 == bigShl(v.r, 1)
    IN  IF bigGeq(r2, d)
        THEN [ q |-> bigAdd(bigShl(v.q, 1), big(1)), r |-> bigSub(r2, d) ]
        ELSE [ q |-> bigShl(v.q, 1), r |-> r2 ]

divStep8(v, d) ==
    divStep(divStep(divStep(divStep(divStep(divStep(divStep(divStep(v, d), d), d), d),
                                    d), d), d), d)

RECURSIVE divBits(_, _, _)
divBits(v, d, n) ==
    IF n = 0 THEN v
    ELSE IF n >= 8 THEN Only({ divBits(w, d, n - 8) : w \in { divStep8(v, d) } })
    ELSE Only({ divBits(w, d, n - 1) : w \in { divStep(v, d) } })

\* a / d for an integer a >= 1 and a double d, rounded to the nearest, to the
\* even mantissa on a tie: the quotient of a * 2^j by the mantissa of d, j
\* such that it has 53 bits.
divDouble(a, d) ==
    LET j0 == 2 * (MantissaBits - 1) - log2(a)
        j  == IF bigGeq(bigShl(big(a), j0 - (MantissaBits - 1)), d.mant)
              THEN j0 ELSE j0 + 1
        f  == divBits([ q |-> big(0), r |-> bigShl(big(a), j - MantissaBits) ],
                      d.mant, MantissaBits)
        twice == bigShl(f.r, 1)
        up == IF twice = d.mant THEN f.q[1] % 2 = 1 ELSE bigGeq(twice, d.mant)
    IN  [ mant |-> IF up THEN bigAdd(f.q, big(1)) ELSE f.q,
          exp |-> 0 - d.exp - j ]

\* The sign of x - y for two positive doubles, each mant * 2^exp with mant
\* from 2^52 to 2^53 (2^53 where a rounding carried): with exponents two or
\* more apart the one with the larger exponent is the larger, else the
\* mantissas are compared at the lower of the two exponents.
doubleCmp(x, y) ==
    IF x.exp > y.exp + 1 THEN 1
    ELSE IF y.exp > x.exp + 1 THEN -1
    ELSE LET low == IF x.exp < y.exp THEN x.exp ELSE y.exp
             X == bigShl(x.mant, x.exp - low)
             Y == bigShl(y.mant, y.exp - low)
         IN  IF X = Y THEN 0 ELSE IF bigGeq(X, Y) THEN 1 ELSE -1

\* The number a score is: num / Math.sqrt(den), for num >= 1.
scoreDouble(a) == Only({ divDouble(a.num, d) : d \in { sqrtDouble(a.den) } })

\* Whether Math.sqrt(n) is an integer.
isSquare(n) == \E r \in 1..n : r <= n \div r /\ r * r = n

\* The sign of a.score - b.score for two scores held as quotients.  Two
\* quotients that differ as reals differ by far more than the two roundings
\* move them (their squares differ by a part in num^2 * den at least, which
\* is within the integers here), so the doubles are in the order of the
\* reals; two quotients equal as reals are compared as the doubles they are.
\* Math.sqrt of a square is exact, and the division is then the rounding of
\* one and the same real for both.
ScoreCmp(a, b) ==
    IF a.num * a.num * b.den > b.num * b.num * a.den THEN 1
    ELSE IF a.num * a.num * b.den < b.num * b.num * a.den THEN -1
    ELSE IF a.num = 0 \/ a = b THEN 0
    ELSE IF isSquare(a.den) /\ isSquare(b.den) THEN 0
    ELSE doubleCmp(scoreDouble(a), scoreDouble(b))

(***************************************************************************)
(* getRelevantChunksMultiDoc, getRelevantChunks                            *)
(***************************************************************************)

\* topK = 8 of getRelevantChunksMultiDoc.
MultiDocTopK == 8

\* topK = 5 of getRelevantChunks, and the slice(0, 5) of the deep-search route.
SingleDocTopK == 5

\* The chunks of one document as pushed on allScored, in chunk order.
scoredOfDoc(doc, docChunks, q) ==
    [ i \in 1..Len(docChunks) |->
        [ chunk |-> docChunks[i],
          score |-> scoreChunk(docChunks[i], q),
          index |-> i - 1,
          filename |-> doc.filename,
          documentId |-> doc.id ] ]

\* The loop "for (const doc of docs)" from the k-th document on.
RECURSIVE allScoredFrom(_, _, _)
allScoredFrom(docs, q, k) ==
    IF k > Len(docs) THEN <<>>
    ELSE Only({ scoredOfDoc(docs[k], docChunks, q) :
                  docChunks \in
                    { chunkText(docs[k].content, DefaultChunkSize, DefaultOverlap) } })
         \o allScoredFrom(docs, q, k + 1)

allScored(docs, q) == allScoredFrom(docs, q, 1)

\* An insertion that puts e before the elements of equal score: an unstable
\* sort.
insertByScoreUnstable(s, e) ==
    SubSeq(s, 1, Cardinality({ i \in 1..Len(s) : ScoreCmp(s[i].score, e.score) > 0 }))
    \o <<e>>
    \o SubSeq(s, Cardinality({ i \in 1..Len(s) : ScoreCmp(s[i].score, e.score) > 0 }) + 1,
              Len(s))

\* Where e goes into s, which is sorted by (a, b) => b.score - a.score: after
\* the elements the comparator does not put behind it, those of equal score
\* included.
insertByScore(s, e) ==
    SubSeq(s, 1, Cardinality({ i \in 1..Len(s) : ScoreCmp(s[i].score, e.score) >= 0 }))
    \o <<e>>
    \o SubSeq(s, Cardinality({ i \in 1..Len(s) : ScoreCmp(s[i].score, e.score) >= 0 }) + 1,
              Len(s))

\* Array.prototype.sort((a, b) => b.score - a.score) of the first k elements:
\* a stable sort, as ECMAScript requires.
RECURSIVE sortByScoreDesc(_, _)
sortByScoreDesc(s, k) ==
    IF k = 0 THEN <<>>
    ELSE Only({ insertByScore(sorted, s[k]) : sorted \in { sortByScoreDesc(s, k - 1) } })

insertByIndex(s, e) ==
    SubSeq(s, 1, Cardinality({ i \in 1..Len(s) : s[i].index <= e.index }))
    \o <<e>>
    \o SubSeq(s, Cardinality({ i \in 1..Len(s) : s[i].index <= e.index }) + 1, Len(s))

\* Array.prototype.sort((a, b) => a.index - b.index) of the first k elements.
RECURSIVE sortByIndex(_, _)
sortByIndex(s, k) ==
    IF k = 0 THEN <<>>
    ELSE Only({ insertByIndex(sorted, s[k]) : sorted \in { sortByIndex(s, k - 1) } })

\* getRelevantChunksMultiDoc without the slice.
getRelevantChunksMultiDocUncut(docs, q, topK) ==
    Only({ sortByScoreDesc(all, Len(all)) : all \in { allScored(docs, q) } })

getRelevantChunksMultiDoc(docs, q, topK) ==
    Only({ slice(sortByScoreDesc(all, Len(all)), 0, topK) :
             all \in { allScored(docs, q) } })

\* The scored array of getRelevantChunks.
scoredChunks(docChunks, q) ==
    [ i \in 1..Len(docChunks) |->
        [ chunk |-> docChunks[i],
          score |-> scoreChunk(docChunks[i], q),
          index |-> i - 1 ] ]

\* getRelevantChunks: the chunk texts of the topK best chunks, in document order.
getRelevantChunks(content, q, topK) ==
    Only({ [ i \in 1..Len(topChunks) |-> topChunks[i].chunk ] :
             topChunks \in
               { sortByIndex(top, Len(top)) :
                   top \in
                     { slice(sortByScoreDesc(scored, Len(scored)), 0, topK) :
                         scored \in
                           { scoredChunks(docChunks, q) :
                               docChunks \in
                                 { chunkText(content, DefaultChunkSize,
                                             DefaultOverlap) } } } } })

(***************************************************************************)
(* Inputs of the pure functions                                            *)
(***************************************************************************)

\* Longest text of the exhaustive families, in characters.
MaxTextLen == 3

\* Number of strides of chunkSize - overlap words the long texts go past
\* chunkSize words.
MaxStride == 3

Letters == <<"a", "b", "c", "d", "e", "f", "g">>

\* Every string over alphabet of at most n characters.
StringsUpTo(alphabet, n) == UNION { [1..k -> alphabet] : k \in 0..n }

\* n one-letter words (the i-th is Letters[i mod 7]), separated in turn by a
\* space and a newline.
WordsText(n) ==
    [p \in 1..(IF n = 0 THEN 0 ELSE 2 * n - 1) |->
        IF p % 2 = 1 THEN Letters[((((p + 1) \div 2) - 1) % 7) + 1]
        ELSE IF (p \div 2) % 2 = 1 THEN " " ELSE "\n"]

ChunkWordCounts ==
    (0..2) \cup
    { DefaultChunkSize + k * (DefaultChunkSize - DefaultOverlap) + d :
        k \in 0..(MaxStride - 1), d \in {-1, 0, 1} }

Margins == { <<>>, <<" ">>, <<"\n", " ">> }

\* Longest chunk and longest question of the exhaustive families of scoreChunk.
MaxChunkLen == 4

MaxQuestionLen == 4

\* The example of the specification's section 8.
CatText ==
    <<"T", "h", "e", " ", "c", "a", "t", " ", "s", "a", "t", " ", "o", "n", " ",
      "t", "h", "e", " ", "m", "a", "t", ".", " ", "T", "h", "e", " ", "c", "a",
      "t", " ", "l", "i", "k", "e", "s", " ", "f", "i", "s", "h", ".">>

CatQuestion ==
    <<"W", "h", "a", "t", " ", "d", "o", "e", "s", " ", "t", "h", "e", " ",
      "c", "a", "t", " ", "l", "i", "k", "e", "?">>

ScoreChunks ==
    StringsUpTo({"a", "b", " "}, MaxChunkLen) \cup
    { CatText,
      <<"A", "b", "A", "b", "a", " ", "a", ".", "a">>,
      <<"a", "a", "a", "a", "a", "a", "a", "\n", "a", "b", "a", "b", "a", "b", "a">>,
      <<"μ", "μ", "μ">>,
      <<"É", "T", "É", " ", "é", "t", "é", "U+2028", "s", "s", "s">>,
      <<"Ο", "Δ", "Ο", "Σ", " ", "U+0130", "U+0130", " ", "σ", "σ", "σ">> }

ScoreQuestions ==
    StringsUpTo({"a", "b", " "}, MaxQuestionLen) \cup
    { CatQuestion,
      <<"t", "h", "e">>,
      <<"T", "h", "e", " ", "C", "A", "T">>,
      <<"W", "h", "o", " ", "i", "s", " ", "i", "t">>,
      <<"a", ".", "a">>,
      <<"a", "a", "a", "\t", "A", "B", "A", " ", "a", "a", "a">>,
      <<"µ", "µ", "µ">>,
      <<"É", "t", "é", " ", "U+017F", "U+017F", "U+017F">>,
      <<"ο", "δ", "ο", "ς", "U+3000", "Σ", "Σ", "Σ", "\n", "U+0130", "U+0130">> }

ChunkTexts ==
    StringsUpTo({"a", " ", "\n"}, MaxTextLen) \cup
    { lead \o WordsText(n) \o trail :
        lead \in Margins, n \in ChunkWordCounts, trail \in Margins }

(***************************************************************************)
(* The documents table and the requests                                    *)
(***************************************************************************)

\* getSession() returning null; a session is otherwise held as its userId.
NoSession == 0

\* A workspaceId, documentId or question the JSON body does not carry (or
\* carries as 0 or ""), which JavaScript takes for false.
Absent == 0

\* documents.workspace_id IS NULL
NoWorkspace == 0

NoRequest ==
    [ route |-> "none", session |-> NoSession, workspaceId |-> Absent,
      documentId |-> Absent, question |-> <<>> ]

NoResponse == [ status |-> 0 ]

\* The users: the first is the admin, the second signed up and has the
\* columns' defaults, role 'user' and is_approved false.
UserIds == {1, 2}

InitialUsers ==
    [ u \in UserIds |->
        [ role |-> IF u = 1 THEN "admin" ELSE "user", isApproved |-> u = 1 ] ]

\* No workspace DELETE request is between its two statements; removed counts
\* the documents the first statement of the request deleted.
NotDeleting == [ session |-> NoSession, workspaceId |-> Absent, removed |-> 0 ]

\* No login request is waiting; one that is has the columns of the row it
\* read and the result verifyPassword will give.
NotSigningIn == [ userId |-> 0, role |-> "none", isApproved |-> FALSE, isValid |-> FALSE ]

NoStoreYet ==
    /\ users = InitialUsers
    /\ cookies = {}
    /\ workspaces = <<>>
    /\ serial = [ documents |-> 0, workspaces |-> 0 ]
    /\ deleting = NotDeleting
    /\ signingIn = NotSigningIn

\* The ask requests that run side by side.
Requests == {1, 2}

\* An ask request that has not come in: its body and its locals docsToSearch,
\* relevantChunks and the response.
IdleAsk ==
    [ pc |-> "idle", session |-> NoSession, workspaceId |-> Absent, question |-> <<>>,
      docs |-> <<>>, selection |-> <<>>, response |-> NoResponse ]

NoAsks == [ r \in Requests |-> IdleAsk ]

NoRequestYet ==
    /\ NoStoreYet
    /\ documents = <<>>
    /\ request = NoRequest
    /\ scope = <<>>
    /\ selection = <<>>
    /\ context = <<>>
    /\ webContext = FALSE
    /\ modelIndex = 0
    /\ trace = <<>>
    /\ response = NoResponse

\* Most rows of the exhaustive family of documents tables.
MaxDocs == 2

\* Most clicks of the user on the page that start a call or change the
\* selection, the questions apart.
MaxClicks == 2

\* The ids of the documents of the page: the two of the table it opens on
\* and those of the uploads.
PageDocIds == {1, 2} \cup { 2 + n : n \in 1..MaxClicks }

\* What useState gives the documents page at its first render (no page is
\* open when kind is "none", and kind is "login" after router.push('/login')):
\* loading, workspaces (the ids), selectedWorkspace or selectedDoc (0 is
\* null), docs (the ids), chat, asking, creatingWS; listed is whether
\* selectedWorkspace is an object of the workspaces list as it is now.  Then
\* the calls of the page that are waiting for their fetch: pending is the bag
\* of those of fetchWorkspaces, fetchDocs, handleUpload,
\* handleCreateWorkspace and handleDeleteWorkspace, inFlight the handleAsk
\* calls, deletes the handleDelete calls of each document in the order of
\* the clicks, each with the docs and the selectedDoc of the render it was
\* clicked in.  asked counts the questions submitted, clicks the other
\* clicks.
NoPage ==
    [ kind |-> "none", loading |-> TRUE, workspaces |-> <<>>, selected |-> 0,
      listed |-> FALSE, docs |-> <<>>, chat |-> <<>>, asking |-> FALSE,
      creating |-> FALSE, pending |-> EmptyBag, inFlight |-> {},
      deletes |-> [ d \in PageDocIds |-> <<>> ], asked |-> 0, clicks |-> 0 ]

\* getSession(): none, or the user the request's cookie was issued to.
Sessions == {NoSession} \cup cookies

WorkspaceIds == {Absent, 1}

DocumentIds == Absent..MaxDocs

\* k copies of unit, one after the other.
Repeat(unit, k) == [ p \in 1..(k * Len(unit)) |-> unit[((p - 1) % Len(unit)) + 1] ]

\* head words "cat", then filler words "x", then tail words "cat", separated
\* by single spaces.
CatsAround(head, filler, tail) ==
    SubSeq(Repeat(<<"c", "a", "t", " ">>, head) \o Repeat(<<"x", " ">>, filler)
           \o Repeat(<<"c", "a", "t", " ">>, tail),
           1, 4 * head + 2 * filler + 4 * tail - 1)

\* 501 words, two chunks: "cat" is the last word of the second.
TwoChunkText == CatsAround(0, DefaultChunkSize, 1)

\* 2101 words, six chunks: "cat" is the first word and the last three.
SixChunkText ==
    CatsAround(1, DefaultChunkSize + 4 * (DefaultChunkSize - DefaultOverlap) - 3, 3)

CatOnly == <<"c", "a", "t">>

CatCatDog == <<"c", "a", "t", " ", "C", "a", "t", "\n", "d", "o", "g", " ", "x">>

\* The rows of the short tables: whose the row is (userId), where it is filed
\* (workspaceId), its filename and content.  The first user's rows are in
\* workspace 1 or in none, two of them with one filename; the second user's
\* rows are in workspace 1 (which upload does not check the owner of) or in
\* none.
RowKinds ==
    { <<1, 1, "a.txt", CatOnly>>,
      <<1, 1, "a.txt", CatCatDog>>,
      <<1, 1, "b.txt", CatOnly>>,
      <<1, NoWorkspace, "a.txt", CatOnly>>,
      <<2, 1, "a.txt", CatOnly>>,
      <<2, NoWorkspace, "b.txt", CatCatDog>> }

Row(id, userId, workspaceId, filename, content) ==
    [ id |-> id, userId |-> userId, workspaceId |-> workspaceId,
      filename |-> filename, content |-> content ]

\* The tables of at most MaxDocs rows of these kinds (ids are serial), and
\* three tables with documents of several chunks.
DocumentTables ==
    UNION { { [ i \in 1..n |-> Row(i, t[i][1], t[i][2], t[i][3], t[i][4]) ] :
                t \in [1..n -> RowKinds] } :
            n \in 0..MaxDocs }
    \cup
    { << Row(1, 1, 1, "a.txt", TwoChunkText) >>,
      << Row(1, 1, NoWorkspace, "a.txt", SixChunkText) >>,
      << Row(1, 1, 1, "a.txt", SixChunkText),
         Row(2, 1, 1, "a.txt", TwoChunkText),
         Row(3, 1, 1, "b.txt", CatOnly) >> }

Questions ==
    { <<>>,
      <<"a", "t">>,
      <<"t", "h", "e">>,
      <<"c", "a", "t">>,
      <<"d", "o", "g">>,
      <<"D", "o", "g", " ", "C", "A", "T">>,
      <<"a", " ", "b">>,
      <<" ", "a", "t", "\n">> }

(***************************************************************************)
(* chunkText called on a text                                              *)
(***************************************************************************)

InitChunk ==
    /\ pc = "chunkText"
    /\ text \in ChunkTexts
    /\ chunks = <<>>
    /\ chunk = <<>>
    /\ question = <<>>
    /\ score = [num |-> 0, den |-> 1]
    /\ scoreTwice = [num |-> 0, den |-> 1]
    /\ loop = NotLooping
    /\ asks = NoAsks
    /\ page = NoPage
    /\ NoRequestYet

CallChunkText ==
    /\ pc = "chunkText"
    /\ chunks' = chunkText(text, DefaultChunkSize, DefaultOverlap)
    /\ pc' = "chunked"
    /\ UNCHANGED <<text, chunk, question, score, scoreTwice, routeVars, storeVars, loop, asks, page>>

NextChunk == CallChunkText

SpecChunk == InitChunk /\ [][NextChunk]_vars

\* The whitespace-delimited words of a text: its maximal runs of non-whitespace.
WordsOf(t) == SelectSeq(split(t), LAMBDA w : Len(w) > 0)

\* The number of whitespace-delimited words, counted at the word starts.
WordCount(t) ==
    Cardinality({ i \in 1..Len(t) : ~IsWs(t[i]) /\ (i = 1 \/ IsWs(t[i - 1])) })

CeilDiv(a, b) == (a + b - 1) \div b

\* ceil(max(W - S, 0) / (S - O)) + 1 for W > 0, and 0 for W = 0.
ExpectedChunkCount(W, S, O) ==
    IF W = 0 THEN 0 ELSE CeilDiv(Max2(W - S, 0), S - O) + 1

\* C1: a text of W whitespace-delimited words, leading or trailing whitespace
\* or not, yields ceil(max(W-500,0)/400)+1 chunks (0 when W = 0); the chunks
\* are numbered by their positions 0..n-1 in the returned array.
C1_ChunkCount ==
    pc = "chunked" =>
        Len(chunks) = ExpectedChunkCount(WordCount(text), DefaultChunkSize, DefaultOverlap)

\* The words the k-th chunk (k from 0) is claimed to hold, joined by single spaces.
ClaimedChunk(words, k, S, O) ==
    join(SubSeq(words, k * (S - O) + 1, Min2(k * (S - O) + S, Len(words))))

\* C2: the k-th chunk is the words [k(S-O), min(k(S-O)+S, W)) of the text
\* joined by single spaces; every word lies in a chunk, only the last chunk
\* reaches the final word and nothing follows it.
C2_ChunkContents ==
    pc = "chunked" =>
        LET words == WordsOf(text)
            stride == DefaultChunkSize - DefaultOverlap
        IN  /\ \A k \in 0..(Len(chunks) - 1) :
                    chunks[k + 1] = ClaimedChunk(words, k, DefaultChunkSize, DefaultOverlap)
            /\ Len(words) > 0 =>
                    /\ Len(chunks) > 0
                    /\ (Len(chunks) - 1) * stride + DefaultChunkSize >= Len(words)
                    /\ \A k \in 0..(Len(chunks) - 2) :
                            k * stride + DefaultChunkSize < Len(words)

\* The texts that neither start nor end with whitespace.
Trimmed(t) == Len(t) = 0 \/ (~IsWs(t[1]) /\ ~IsWs(t[Len(t)]))

(***************************************************************************)
(* scoreChunk called on a chunk and a question, and on the chunk twice over *)
(***************************************************************************)

InitScore ==
    /\ pc = "scoreChunk"
    /\ text = <<>>
    /\ chunks = <<>>
    /\ chunk \in ScoreChunks
    /\ question \in ScoreQuestions
    /\ score = [num |-> 0, den |-> 1]
    /\ scoreTwice = [num |-> 0, den |-> 1]
    /\ loop = NotLooping
    /\ asks = NoAsks
    /\ page = NoPage
    /\ NoRequestYet

CallScoreChunk ==
    /\ pc = "scoreChunk"
    /\ score' = scoreChunk(chunk, question)
    /\ pc' = "scored"
    /\ UNCHANGED <<text, chunks, chunk, question, scoreTwice, routeVars, storeVars, loop, asks, page>>

\* Two copies of a chunk's text, one after the other.
Twice(c) == c \o <<" ">> \o c

CallScoreChunkTwice ==
    /\ pc = "scored"
    /\ scoreTwice' = scoreChunk(Twice(chunk), question)
    /\ pc' = "scoredTwice"
    /\ UNCHANGED <<text, chunks, chunk, question, score, routeVars, storeVars, loop, asks, page>>

NextScore == CallScoreChunk \/ CallScoreChunkTwice

SpecScore == InitScore /\ [][NextScore]_vars

\* The question's whitespace-delimited tokens, lower-cased, that are longer than
\* two characters and are no stop words, in question order.
SurvivingTokens(q) ==
    SelectSeq(WordsOf(toLowerCase(q)), LAMBDA w : Len(w) > 2 /\ w \notin StopWords)

Cat == <<"c", "a", "t">>

Like == <<"l", "i", "k", "e">>

LikeQuestionMark == <<"l", "i", "k", "e", "?">>

CatCase == pc # "scoreChunk" /\ chunk = CatText /\ question = CatQuestion

\* C3 as claimed: in the cat example the surviving tokens are "cat" and "like",
\* with 2 and 1 occurrences, the chunk has 9 words and the score is
\* 3/sqrt(9) = 1.0.
C3_CatExampleAsClaimed ==
    CatCase =>
        /\ questionWords(question) = <<Cat, Like>>
        /\ matchCount(toLowerCase(chunk), Cat) = 2
        /\ matchCount(toLowerCase(chunk), Like) = 1
        /\ Len(split(chunk)) = 9
        /\ score = [num |-> 3, den |-> 9]

\* C3 amended: in the cat example the surviving tokens are "cat" and "like?"
\* (punctuation stays on the token), with 2 and 0 occurrences, the chunk has
\* 10 words and the score is 2/sqrt(10).
C3_CatExample ==
    CatCase =>
        /\ questionWords(question) = <<Cat, LikeQuestionMark>>
        /\ matchCount(toLowerCase(chunk), Cat) = 2
        /\ matchCount(toLowerCase(chunk), LikeQuestionMark) = 0
        /\ Len(split(chunk)) = 10
        /\ score = [num |-> 2, den |-> 10]

C3_Witness == pc = "scored" /\ chunk = CatText /\ question = CatQuestion

\* The start positions at which tok occurs in c as a substring, character
\* for character.
SubstringStarts(c, tok) ==
    { i \in 1..(Len(c) - Len(tok) + 1) : SubSeq(c, i, i + Len(tok) - 1) = tok }

\* Two characters are the same to a comparison that ignores case as the i
\* flag does: their canonical characters are equal, the canonical character
\* being the upper case where that is one code unit (and not an ASCII one
\* for a character that is not ASCII) and the character itself otherwise.
SameIgnoringCase(a, b) == Canonicalize(a) = Canonicalize(b)

\* The start positions at which tok occurs in c, case ignored.
OccurrenceStarts(c, tok) ==
    { i \in 1..(Len(c) - Len(tok) + 1) :
        \A j \in 1..Len(tok) : SameIgnoringCase(c[i + j - 1], tok[j]) }

\* The sum over the tokens toks[k..] of the number of start positions of the
\* token in c.
RECURSIVE AllStartsTotal(_, _, _)
AllStartsTotal(c, toks, k) ==
    IF k > Len(toks) THEN 0
    ELSE Cardinality(SubstringStarts(c, toks[k])) + AllStartsTotal(c, toks, k + 1)

\* The largest number of pairwise non-overlapping occurrences of width-long
\* matches among the start positions.
MaxDisjoint(starts, width) ==
    LET disjoint == { S \in SUBSET starts :
                        \A x, y \in S : x < y => y - x >= width }
    IN  CHOOSE n \in 0..Cardinality(starts) :
            /\ \E S \in disjoint : Cardinality(S) = n
            /\ \A S \in disjoint : Cardinality(S) <= n

RECURSIVE DisjointTotal(_, _, _)
DisjointTotal(c, toks, k) ==
    IF k > Len(toks) THEN 0
    ELSE MaxDisjoint(OccurrenceStarts(c, toks[k]), Len(toks[k]))
         + DisjointTotal(c, toks, k + 1)

\* C4 as claimed: the raw score is the sum over the surviving tokens of the
\* number of start positions at which the token occurs as a substring in the
\* lower-cased chunk, overlapping occurrences included.
C4_AllStartPositions ==
    pc # "scoreChunk" =>
        score.num = AllStartsTotal(toLowerCase(chunk), SurvivingTokens(question), 1)

\* C4 amended: the raw score is the sum over the surviving tokens of the
\* number of non-overlapping occurrences of the token in the lower-cased
\* chunk (the most occurrences no two of which overlap), an occurrence being
\* compared as the i flag compares.
C4_NonOverlappingOccurrences ==
    pc # "scoreChunk" =>
        score.num = DisjointTotal(toLowerCase(chunk), SurvivingTokens(question), 1)

\* A surviving token has more start positions in the chunk than matches counted.
C4_Witness ==
    /\ pc = "scored"
    /\ score.num > 0
    /\ score.num < AllStartsTotal(toLowerCase(chunk), SurvivingTokens(question), 1)

\* C5 as claimed: the score is never negative, its divisor is never zero, and
\* it is 0 exactly when no question token survives the filters or no
\* surviving token occurs (as a substring) in the lower-cased chunk.
C5_ScoreSignAsClaimed ==
    pc # "scoreChunk" =>
        /\ score.num >= 0
        /\ score.den >= 1
        /\ score.num = 0 <=>
              \A k \in 1..Len(SurvivingTokens(question)) :
                  SubstringStarts(toLowerCase(chunk), SurvivingTokens(question)[k]) = {}

\* C5 amended: the score is never negative, its divisor is never zero, and it
\* is 0 exactly when no question token survives the filters or no surviving
\* token occurs in the lower-cased chunk, case ignored as the i flag ignores
\* it.
C5_ScoreSign ==
    pc # "scoreChunk" =>
        /\ score.num >= 0
        /\ score.den >= 1
        /\ score.num = 0 <=>
              \A k \in 1..Len(SurvivingTokens(question)) :
                  OccurrenceStarts(toLowerCase(chunk), SurvivingTokens(question)[k]) = {}

\* A token survives and is counted that is no substring of the lower-cased
\* chunk: the micro sign of the question matches the Greek mu of the chunk.
C5_Witness ==
    /\ pc = "scored"
    /\ score.num > 0
    /\ \A k \in 1..Len(SurvivingTokens(question)) :
          SubstringStarts(toLowerCase(chunk), SurvivingTokens(question)[k]) = {}

\* The premise of C6: two copies have twice the words of one.
WordCountDoubles == Len(split(Twice(chunk))) = 2 * Len(split(chunk))

\* C6 as claimed: score(two copies)^2 * 2 = score(one copy)^2.
C6_FactorInverseSqrt2 ==
    (pc = "scoredTwice" /\ WordCountDoubles) =>
        2 * scoreTwice.num * scoreTwice.num * score.den
            = score.num * score.num * scoreTwice.den

\* C6 amended: two copies of a chunk have twice the occurrences and twice the
\* words, so score(two copies)^2 = 2 * score(one copy)^2: the factor is
\* sqrt(2), not 1/sqrt(2).
C6_FactorSqrt2 ==
    (pc = "scoredTwice" /\ WordCountDoubles) =>
        /\ scoreTwice.num = 2 * score.num
        /\ scoreTwice.num * scoreTwice.num * score.den
              = 2 * score.num * score.num * scoreTwice.den

C6_Witness ==
    /\ pc = "scoredTwice"
    /\ WordCountDoubles
    /\ score.num > 0
    /\ Len(split(chunk)) > 1

(***************************************************************************)
(* The question-answering routes: ask (workspace-aware), legacy ask,       *)
(* deep-search.  A handler runs from the request to its first await of the *)
(* completion service in one step, and from each reply of the service to   *)
(* the next call or to the response in one step.                           *)
(***************************************************************************)

\* const models = [...] of the three routes.
Models == <<"gemini-2.5-flash", "gemini-2.0-flash", "gemini-2.0-flash-lite">>

\* What one generateContent call comes to: a text, an empty text, an error
\* whose message has "429" or "quota" in it, another error.
CompletionOutcomes == {"text", "empty", "rateLimited", "error"}

RateLimitedMessage ==
    "All AI models are currently rate-limited. Please try again in a minute."

\* The preview cut of a citation.
PreviewLength == 200

\* chunk.substring(0, 200) + (chunk.length > 200 ? '...' : '')
preview(c) ==
    SubSeq(c, 1, Min2(PreviewLength, Len(c)))
    \o (IF Len(c) > PreviewLength THEN <<".", ".", ".">> ELSE <<>>)

\* question.trim().length < 3
MinQuestionLength == 3

\* !question || question.trim().length < 3
questionTooShort(q) == Len(q) = 0 \/ Len(trim(q)) < MinQuestionLength

\* The rows of a workspace, whoever owns them.
workspaceDocsOfAnyOwner(rows, userId, workspaceId) ==
    SelectSeq(rows, LAMBDA d : d.workspaceId = workspaceId)

\* The columns { id, filename, content } of the rows of a workspace that the
\* session's user owns.
workspaceDocsOf(rows, userId, workspaceId) ==
    SelectSeq(rows, LAMBDA d : d.workspaceId = workspaceId /\ d.userId = userId)

\* The row with the id that the session's user owns (limit 1), if any.
ownDocOf(rows, userId, documentId) ==
    slice(SelectSeq(rows, LAMBDA d : d.id = documentId /\ d.userId = userId), 0, 1)

\* docsToSearch of the ask route.
docsToSearch(rows, userId, workspaceId, documentId) ==
    IF workspaceId # Absent THEN workspaceDocsOf(rows, userId, workspaceId)
    ELSE IF documentId # Absent THEN ownDocOf(rows, userId, documentId)
    ELSE <<>>

\* The sections `[Section i from "filename"]\nchunk` of the context, in order.
sectionsOf(sel) ==
    [ i \in 1..Len(sel) |->
        [ section |-> i, filename |-> sel[i].filename, chunk |-> sel[i].chunk ] ]

\* The sections `[Section i]\nchunk` of the legacy route's context.
legacySectionsOf(sel) ==
    [ i \in 1..Len(sel) |-> [ section |-> i, chunk |-> sel[i] ] ]

\* sourceMap.has / set / get(...).chunks.push for one chunk: sourceMap is a Map
\* keyed by filename, held as the sequence of its values in insertion order.
pushSource(groups, c) ==
    IF \E g \in 1..Len(groups) : groups[g].filename = c.filename
    THEN [ g \in 1..Len(groups) |->
             IF groups[g].filename = c.filename
             THEN [ groups[g] EXCEPT
                      !.chunks = Append(@, [ index |-> c.index + 1,
                                             preview |-> preview(c.chunk) ]) ]
             ELSE groups[g] ]
    ELSE Append(groups,
                [ filename |-> c.filename,
                  chunks |-> << [ index |-> c.index + 1,
                                  preview |-> preview(c.chunk) ] >> ])

\* The loop "for (const chunk of relevantChunks)" over the first k chunks.
RECURSIVE sourcesOf(_, _)
sourcesOf(sel, k) ==
    IF k = 0 THEN <<>>
    ELSE Only({ pushSource(groups, sel[k]) : groups \in { sourcesOf(sel, k - 1) } })

\* chunks: relevantChunks.map((chunk, i) => ({ index: i + 1, preview })) of the
\* legacy route.
legacyChunksOf(sel) ==
    [ i \in 1..Len(sel) |-> [ index |-> i, preview |-> preview(sel[i]) ] ]

\* The ScoredChunk of the deep-search route has no documentId.
withoutDocumentId(all) ==
    [ i \in 1..Len(all) |->
        [ chunk |-> all[i].chunk, score |-> all[i].score,
          filename |-> all[i].filename, index |-> all[i].index ] ]

\* allScored.sort(...); allScored.slice(0, 5) of the deep-search route.
deepTopChunks(docs, q) ==
    Only({ slice(sortByScoreDesc(all, Len(all)), 0, SingleDocTopK) :
             all \in { withoutDocumentId(allScored(docs, q)) } })

ErrorResponse(status, message) == [ status |-> status, error |-> message ]

\* The columns a route keeps of the rows it found, less the content.
scopeOf(docs) == [ i \in 1..Len(docs) |-> [ id |-> docs[i].id, filename |-> docs[i].filename ] ]

Respond(r) ==
    /\ response' = r
    /\ pc' = "responded"

\* A request ended before any chunk was selected, after the given steps.
RespondEarly(r, steps) ==
    /\ Respond(r)
    /\ trace' = steps
    /\ UNCHANGED <<scope, selection, context, webContext, modelIndex>>

\* answerWithGemini up to its first generateContent call (the three routes
\* start the loop alike): without an API key it throws, and the handler's
\* catch answers 500.
CallFirstModel(apiKey, awaiting, steps) ==
    IF apiKey
    THEN /\ modelIndex' = 1
         /\ trace' = Append(steps, Models[1])
         /\ response' = NoResponse
         /\ pc' = awaiting
    ELSE /\ modelIndex' = 0
         /\ trace' = steps
         /\ Respond(ErrorResponse(500, "GEMINI_API_KEY is not configured"))

\* The catch of the model loop: the next model after a rate-limit error and the
\* delay, the error itself otherwise, the rate-limit error after the last model.
ModelFailed(outcome) ==
    IF outcome = "rateLimited"
    THEN IF modelIndex < Len(Models)
         THEN /\ modelIndex' = modelIndex + 1
              /\ trace' = trace \o <<outcome, "delay", Models[modelIndex + 1]>>
              /\ UNCHANGED <<pc, response>>
         ELSE /\ Respond(ErrorResponse(500, RateLimitedMessage))
              /\ trace' = trace \o <<outcome, "delay">>
              /\ UNCHANGED modelIndex
    ELSE /\ Respond(ErrorResponse(500, "generateContent failed"))
         /\ trace' = Append(trace, outcome)
         /\ UNCHANGED modelIndex

\* docsToSearch.length === 0
noDocumentsFound(docs) == Len(docs) = 0

\* The query of the ask route: one when the body has a workspaceId or a
\* documentId, none otherwise.
askFetch(workspaceId, documentId) ==
    IF workspaceId = Absent /\ documentId = Absent THEN <<>> ELSE <<"fetchDocuments">>

\* POST of the ask route, to the first call of the completion service.
AskStart ==
    /\ pc = "idle"
    /\ \E session \in Sessions, workspaceId \in WorkspaceIds,
          documentId \in DocumentIds, q \in Questions :
        /\ request' = [ route |-> "ask", session |-> session,
                        workspaceId |-> workspaceId, documentId |-> documentId,
                        question |-> q ]
        /\ IF session = NoSession
           THEN RespondEarly(ErrorResponse(401, "Unauthorized"), <<>>)
           ELSE IF questionTooShort(q)
           THEN RespondEarly(ErrorResponse(400, "Please ask a more specific question."), <<>>)
           ELSE IF noDocumentsFound(docsToSearch(documents, session, workspaceId, documentId))
           THEN RespondEarly(ErrorResponse(404, "No documents found"),
                             askFetch(workspaceId, documentId))
           ELSE /\ scope' = scopeOf(docsToSearch(documents, session, workspaceId, documentId))
                /\ selection' = getRelevantChunksMultiDoc(
                                    docsToSearch(documents, session, workspaceId, documentId),
                                    q, MultiDocTopK)
                /\ context' = sectionsOf(selection')
                /\ UNCHANGED webContext
                /\ \E apiKey \in BOOLEAN :
                     CallFirstModel(apiKey, "askModel", <<"fetchDocuments", "select">>)
    /\ UNCHANGED <<callVars, documents, storeVars>>

\* The ask route from a reply of the completion service on.
AskModelReply ==
    /\ pc = "askModel"
    /\ \E outcome \in CompletionOutcomes :
        IF outcome \in {"text", "empty"}
        THEN /\ Respond([ status |-> 200,
                          answer |-> outcome,
                          sources |-> sourcesOf(selection, Len(selection)),
                          totalDocuments |-> Len(scope) ])
             /\ trace' = Append(trace, outcome)
             /\ UNCHANGED modelIndex
        ELSE ModelFailed(outcome)
    /\ UNCHANGED <<callVars, documents, storeVars, request, scope, selection, context,
                   webContext>>

\* relevantChunks of the legacy route is a string[]: the variable selection
\* holds each string as a record of its own, as it holds the ScoredChunks
\* of the other routes.
held(strings) == [ i \in 1..Len(strings) |-> [ chunk |-> strings[i] ] ]

chunkStrings(sel) == [ i \in 1..Len(sel) |-> sel[i].chunk ]

\* POST of the legacy ask route, to the first call of the completion service.
LegacyStart ==
    /\ pc = "idle"
    /\ \E session \in Sessions, documentId \in DocumentIds, q \in Questions :
        /\ request' = [ route |-> "legacy", session |-> session,
                        workspaceId |-> Absent, documentId |-> documentId,
                        question |-> q ]
        /\ IF session = NoSession
           THEN RespondEarly(ErrorResponse(401, "Unauthorized"), <<>>)
           ELSE IF documentId = Absent \/ Len(q) = 0
           THEN RespondEarly(ErrorResponse(400, "Document ID and question are required"),
                             <<>>)
           ELSE IF Len(trim(q)) < MinQuestionLength
           THEN RespondEarly(ErrorResponse(400,
                    "Question is too short. Please ask a more specific question."), <<>>)
           ELSE IF Len(ownDocOf(documents, session, documentId)) = 0
           THEN RespondEarly(ErrorResponse(404, "Document not found"), <<"fetchDocuments">>)
           ELSE /\ scope' = scopeOf(ownDocOf(documents, session, documentId))
                /\ selection' = held(getRelevantChunks(
                                    ownDocOf(documents, session, documentId)[1].content,
                                    q, SingleDocTopK))
                /\ context' = legacySectionsOf(chunkStrings(selection'))
                /\ UNCHANGED webContext
                /\ \E apiKey \in BOOLEAN :
                     CallFirstModel(apiKey, "legacyModel", <<"fetchDocuments", "select">>)
    /\ UNCHANGED <<callVars, documents, storeVars>>

\* The legacy ask route from a reply of the completion service on.
LegacyModelReply ==
    /\ pc = "legacyModel"
    /\ \E outcome \in CompletionOutcomes :
        IF outcome \in {"text", "empty"}
        THEN /\ Respond([ status |-> 200,
                          answer |-> outcome,
                          chunks |-> legacyChunksOf(chunkStrings(selection)) ])
             /\ trace' = Append(trace, outcome)
             /\ UNCHANGED modelIndex
        ELSE ModelFailed(outcome)
    /\ UNCHANGED <<callVars, documents, storeVars, request, scope, selection, context,
                   webContext>>

\* What the deep-search route does before it looks for the API key: the web
\* search, the query if a workspace is named, the scoring if it holds rows.
deepSteps(workspaceId, found) ==
    <<"webSearch">>
    \o (IF workspaceId # Absent THEN <<"fetchDocuments">> ELSE <<>>)
    \o (IF workspaceId # Absent /\ found > 0 THEN <<"select">> ELSE <<>>)

\* POST of the deep-search route, to the first call of the completion service.
\* The web search is done first, whatever the workspace holds; the response's
\* webSources are not modelled.
DeepStart ==
    /\ pc = "idle"
    /\ \E session \in Sessions, workspaceId \in WorkspaceIds, q \in Questions :
        /\ request' = [ route |-> "deep", session |-> session,
                        workspaceId |-> workspaceId, documentId |-> Absent,
                        question |-> q ]
        /\ IF session = NoSession
           THEN RespondEarly(ErrorResponse(401, "Unauthorized"), <<>>)
           ELSE IF questionTooShort(q)
           THEN RespondEarly(ErrorResponse(400, "Please ask a more specific question."), <<>>)
           ELSE /\ scope' = IF workspaceId # Absent
                            THEN scopeOf(workspaceDocsOf(documents, session, workspaceId))
                            ELSE <<>>
                /\ selection' = IF workspaceId # Absent
                                THEN deepTopChunks(
                                         workspaceDocsOf(documents, session, workspaceId), q)
                                ELSE <<>>
                /\ context' = sectionsOf(selection')
                /\ webContext' \in BOOLEAN
                /\ \E apiKey \in BOOLEAN :
                     IF apiKey /\ Len(context') = 0 /\ ~webContext'
                     THEN /\ modelIndex' = 0
                          /\ trace' = deepSteps(workspaceId, Len(scope'))
                          /\ Respond(ErrorResponse(404,
                                 "No results found from documents or web search."))
                     ELSE CallFirstModel(apiKey, "deepModel",
                                         deepSteps(workspaceId, Len(scope')))
    /\ UNCHANGED <<callVars, documents, storeVars>>

\* The deep-search route from a reply of the completion service on: an empty
\* text leaves answer empty, which the handler takes for rate-limiting.
DeepModelReply ==
    /\ pc = "deepModel"
    /\ \E outcome \in CompletionOutcomes :
        IF outcome = "text"
        THEN /\ Respond([ status |-> 200,
                          answer |-> outcome,
                          docSources |-> sourcesOf(selection, Len(selection)),
                          hasDocContext |-> Len(context) > 0,
                          hasWebContext |-> webContext ])
             /\ trace' = Append(trace, outcome)
             /\ UNCHANGED modelIndex
        ELSE IF outcome = "empty"
        THEN /\ Respond(ErrorResponse(500, RateLimitedMessage))
             /\ trace' = Append(trace, outcome)
             /\ UNCHANGED modelIndex
        ELSE ModelFailed(outcome)
    /\ UNCHANGED <<callVars, documents, storeVars, request, scope, selection, context,
                   webContext>>

(***************************************************************************)
(* The summarize route.  The handler is given the body of its request and  *)
(* what YouTube answers to the two fetches of getTranscript.  What the     *)
(* runtime throws (a fetch or the reading of a body that rejects, a        *)
(* property read of null, a call of what is no function) is given with its *)
(* message: the handler passes the message on, whatever it is.             *)
(***************************************************************************)

\* new Error(message), and an error the runtime throws with that message.
Error(message) == [ isError |-> TRUE, message |-> message ]

\* Messages of errors the runtime throws, in its words (they vary with its
\* version), by the place that throws.  request.json(): JSON.parse on an
\* empty body and on a page of HTML; the destructuring of a null body.
BodyMessages ==
    { "Unexpected end of JSON input",
      "Unexpected token '<', \"<html>\" is not valid JSON",
      "Cannot destructure property 'url' of '(intermediate value)' as it is null." }

\* url.match of a url that is a number.
MatchMessages == { "url.match is not a function" }

\* The fetch of the player API without a network, playerResponse.json() on an
\* empty body, data.videoDetails of the body null.
PlayerMessages ==
    { "fetch failed",
      "Unexpected end of JSON input",
      "Cannot read properties of null (reading 'videoDetails')" }

\* The fetch of the baseUrl without a network, captionResponse.text() on a
\* body that breaks off.
CaptionMessages == { "fetch failed", "terminated" }

\* err instanceof Error ? err.message : fallback
errorMessage(err, fallback) == IF err.isError THEN err.message ELSE fallback

\* The character class [a-zA-Z0-9_-] of the patterns of extractVideoId.
VideoIdChars ==
    { "a", "b", "c", "d", "e", "f", "g", "h", "i", "j", "k", "l", "m", "n",
      "o", "p", "q", "r", "s", "t", "u", "v", "w", "x", "y", "z", "A", "B",
      "C", "D", "E", "F", "G", "H", "I", "J", "K", "L", "M", "N", "O", "P",
      "Q", "R", "S", "T", "U", "V", "W", "X", "Y", "Z", "0", "1", "2", "3",
      "4", "5", "6", "7", "8", "9", "_", "-" }

\* {11}
VideoIdLength == 11

\* What the patterns of extractVideoId have before the id, in the order of
\* the array.
VideoIdPatterns ==
    << <<"y", "o", "u", "t", "u", "b", "e", ".", "c", "o", "m", "/", "w", "a", "t", "c", "h", "?", "v", "=">>,
       <<"y", "o", "u", "t", "u", ".", "b", "e", "/">>,
       <<"y", "o", "u", "t", "u", "b", "e", ".", "c", "o", "m", "/", "e", "m", "b", "e", "d", "/">>,
       <<"y", "o", "u", "t", "u", "b", "e", ".", "c", "o", "m", "/", "s", "h", "o", "r", "t", "s", "/">> >>

\* Where in url a pattern matches: what it has before the id, and eleven
\* characters of the class after that.
patternStarts(url, prefix) ==
    { i \in 1..(Len(url) - Len(prefix) - VideoIdLength + 1) :
        /\ SubSeq(url, i, i + Len(prefix) - 1) = prefix
        /\ \A j \in 0..(VideoIdLength - 1) : url[i + Len(prefix) + j] \in VideoIdChars }

\* return null
NoVideoId == <<>>

\* match[1] of url.match(pattern): the id at the first match of the pattern.
videoIdAt(url, prefix) ==
    Only({ SubSeq(url, i + Len(prefix), i + Len(prefix) + VideoIdLength - 1) :
             i \in { CHOOSE i \in patternStarts(url, prefix) :
                       \A o \in patternStarts(url, prefix) : i <= o } })

\* extractVideoId: the loop over the patterns from the k-th on.
RECURSIVE extractVideoIdFrom(_, _)
extractVideoIdFrom(url, k) ==
    IF k > Len(VideoIdPatterns) THEN NoVideoId
    ELSE IF patternStarts(url, VideoIdPatterns[k]) # {}
    THEN videoIdAt(url, VideoIdPatterns[k])
    ELSE extractVideoIdFrom(url, k + 1)

extractVideoId(url) == extractVideoIdFrom(url, 1)

\* String.prototype.replace(/pattern/g, replacement) for a pattern that is a
\* literal, from position i of s on.
RECURSIVE replaceAllFrom(_, _, _, _)
replaceAllFrom(s, i, pattern, replacement) ==
    IF i > Len(s) THEN <<>>
    ELSE IF /\ i + Len(pattern) - 1 <= Len(s)
            /\ SubSeq(s, i, i + Len(pattern) - 1) = pattern
    THEN replacement \o replaceAllFrom(s, i + Len(pattern), pattern, replacement)
    ELSE <<s[i]>> \o replaceAllFrom(s, i + 1, pattern, replacement)

\* The replacements of decodeHtmlEntities, in the order of its calls.
EntityReplacements ==
    << << <<"&", "a", "m", "p", ";", "#", "3", "9", ";">>, <<"'">> >>,
       << <<"&", "a", "m", "p", ";", "q", "u", "o", "t", ";">>, <<"\"">> >>,
       << <<"&", "a", "m", "p", ";">>, <<"&">> >>,
       << <<"&", "#", "3", "9", ";">>, <<"'">> >>,
       << <<"&", "q", "u", "o", "t", ";">>, <<"\"">> >>,
       << <<"&", "l", "t", ";">>, <<"<">> >>,
       << <<"&", "g", "t", ";">>, <<">">> >>,
       << <<"\n">>, <<" ">> >> >>

\* The first k replacements made in t.
RECURSIVE replacedBy(_, _)
replacedBy(t, k) ==
    IF k = 0 THEN t
    ELSE replaceAllFrom(replacedBy(t, k - 1), 1,
                        EntityReplacements[k][1], EntityReplacements[k][2])

decodeHtmlEntities(t) == trim(replacedBy(t, Len(EntityReplacements)))

\* String.prototype.startsWith
startsWith(s, prefix) == Len(s) >= Len(prefix) /\ SubSeq(s, 1, Len(prefix)) = prefix

\* Language codes of caption tracks.
En == <<"e", "n">>

EnUS == <<"e", "n", "-", "U", "S">>

Fr == <<"f", "r">>

\* A caption track: its language, its baseUrl ("" for none), and what the
\* fetch of the baseUrl is answered.
Track(languageCode, baseUrl, captions) ==
    [ languageCode |-> languageCode, baseUrl |-> baseUrl, captions |-> captions ]

\* An element of a caption document as the two patterns of getTranscript see
\* it: <text ...>content</text>, <p ...>content</p>, or anything else.
Element(tag, content) == [ tag |-> tag, content |-> content ]

\* Caption documents: the empty body, one without text or p elements, one
\* with blank text elements only, one with text elements and a p element,
\* one with p elements only.
CaptionDocuments ==
    { <<>>,
      << Element("other", <<>>) >>,
      << Element("text", <<" ">>), Element("text", <<"\n">>) >>,
      << Element("text", <<"a", " ", "&", "a", "m", "p", ";", "#", "3", "9", ";", "b">>),
         Element("text", <<>>),
         Element("p", <<"z", "z">>),
         Element("text", <<"&", "a", "m", "p", ";", "a", "m", "p", ";", " ", "c", "\n", "d", " ">>) >>,
      << Element("other", <<>>),
         Element("p", <<" ", "&", "l", "t", ";", "b", "&", "g", "t", ";", " ", "&", "q", "u", "o", "t", ";", "e", "&", "q", "u", "o", "t", ";">>),
         Element("p", <<"&", "#", "3", "9", ";", "f">>) >> }

\* What the fetch of a baseUrl is answered: it or the reading of the body
\* throws, a status that is not ok, a caption document.
CaptionResponses ==
    { [ threw |-> Error(m) ] : m \in CaptionMessages }
    \cup { [ ok |-> FALSE ] }
    \cup { [ ok |-> TRUE, xml |-> xml ] : xml \in CaptionDocuments }

\* The document the captions of the other tracks are.
Spoken == [ ok |-> TRUE, xml |-> << Element("text", <<"y", "e", "s">>) >> ]

\* The captionTracks of the player's answer: none (or an empty array); one
\* track in another language; an English variant after another language; an
\* English track without a baseUrl after an English variant.
TrackLists ==
    { <<>> }
    \cup { << Track(Fr, "https://captions.example/fr", c) >> : c \in CaptionResponses }
    \cup { << Track(Fr, "https://captions.example/fr", Spoken),
              Track(EnUS, "https://captions.example/en-US", [ ok |-> FALSE ]) >>,
           << Track(EnUS, "https://captions.example/en-US", Spoken),
              Track(En, "", Spoken) >> }

\* The player's answer for a video with a title and a transcript.
Lecture ==
    [ ok |-> TRUE, title |-> "A lecture",
      captionTracks |-> << Track(En, "https://captions.example/en", Spoken) >> ]

\* What the player API answers for a video: the fetch, the reading of its
\* body as JSON or a read of the data throws; a status that is not ok; the
\* data, with videoDetails.title ("" for none) and the caption tracks.
PlayerResponses ==
    { [ threw |-> Error(m) ] : m \in PlayerMessages }
    \cup { [ ok |-> FALSE ], Lecture }
    \cup { [ ok |-> TRUE, title |-> "", captionTracks |-> tracks ] :
             tracks \in TrackLists }

\* captionTracks.find(t => t.languageCode === 'en')
findEnglish(captionTracks) ==
    captionTracks[CHOOSE i \in 1..Len(captionTracks) :
                    /\ captionTracks[i].languageCode = En
                    /\ \A o \in 1..(i - 1) : captionTracks[o].languageCode # En]

\* captionTracks.find(t => t.languageCode?.startsWith('en'))
findEnglishVariant(captionTracks) ==
    captionTracks[CHOOSE i \in 1..Len(captionTracks) :
                    /\ startsWith(captionTracks[i].languageCode, En)
                    /\ \A o \in 1..(i - 1) :
                          ~startsWith(captionTracks[o].languageCode, En)]

\* const enTrack = captionTracks.find(..) || captionTracks.find(..) || captionTracks[0]
preferredTrack(captionTracks) ==
    IF \E i \in 1..Len(captionTracks) : captionTracks[i].languageCode = En
    THEN findEnglish(captionTracks)
    ELSE IF \E i \in 1..Len(captionTracks) : startsWith(captionTracks[i].languageCode, En)
    THEN findEnglishVariant(captionTracks)
    ELSE captionTracks[1]

\* The decoded contents of the elements with the tag, in document order.
decodedOf(xml, tag) ==
    Only({ [ i \in 1..Len(matches) |-> decodeHtmlEntities(matches[i].content) ] :
             matches \in { SelectSeq(xml, LAMBDA el : el.tag = tag) } })

\* segments: of the text elements, or of the p elements if there are none.
segmentsOf(xml) ==
    IF Len(decodedOf(xml, "text")) > 0 THEN decodedOf(xml, "text")
    ELSE decodedOf(xml, "p")

\* segments.filter(t => t !== '').join(' ')
transcriptOf(segments) == join(SelectSeq(segments, LAMBDA t : t # <<>>))

\* getTranscript from the answer to the fetch of the baseUrl on: what it
\* throws, or the transcript.
transcriptFromCaptions(captions) ==
    IF "threw" \in DOMAIN captions THEN [ threw |-> captions.threw ]
    ELSE IF ~captions.ok THEN [ threw |-> Error("Failed to fetch captions") ]
    ELSE IF Len(captions.xml) = 0 THEN [ threw |-> Error("Caption data is empty") ]
    ELSE IF Len(segmentsOf(captions.xml)) = 0
    THEN [ threw |-> Error("No text found in captions") ]
    ELSE IF Len(trim(transcriptOf(segmentsOf(captions.xml)))) = 0
    THEN [ threw |-> Error("Transcript is empty") ]
    ELSE [ transcript |-> transcriptOf(segmentsOf(captions.xml)) ]

\* getTranscript for the video the player API answers with player: what it
\* throws, or the title and the transcript.
getTranscript(player) ==
    IF "threw" \in DOMAIN player THEN [ threw |-> player.threw ]
    ELSE IF ~player.ok THEN [ threw |-> Error("Failed to fetch video data from YouTube") ]
    ELSE IF Len(player.captionTracks) = 0
    THEN [ threw |-> Error("No captions/subtitles available for this video") ]
    ELSE IF preferredTrack(player.captionTracks).baseUrl = ""
    THEN [ threw |-> Error("No caption URL found") ]
    ELSE \* the fetch of the track's baseUrl
         IF "threw" \in DOMAIN transcriptFromCaptions(
                                   preferredTrack(player.captionTracks).captions)
         THEN transcriptFromCaptions(preferredTrack(player.captionTracks).captions)
         ELSE [ title |-> IF player.title = "" THEN "Untitled Video" ELSE player.title,
                transcript |-> transcriptFromCaptions(
                                   preferredTrack(player.captionTracks).captions).transcript ]

\* A link to a video.
WatchLink == <<"h", "t", "t", "p", "s", ":", "/", "/", "w", "w", "w", ".", "y", "o", "u", "t", "u", "b", "e", ".", "c", "o", "m", "/", "w", "a", "t", "c", "h", "?", "v", "=", "d", "Q", "w", "4", "w", "9", "W", "g", "X", "c", "Q", "&", "t", "=", "1">>

\* The url of the body: none (undefined, null, ''), a value that is no string
\* (the call of its match throws), and strings: no YouTube link, an id of ten
\* characters, links of three of the patterns, and a string that two patterns
\* match.
NoUrl == [ truthy |-> FALSE ]

UrlOfNoString ==
    { [ truthy |-> TRUE, isString |-> FALSE, threw |-> Error(m) ] : m \in MatchMessages }

UrlStrings ==
    { <<"h", "t", "t", "p", "s", ":", "/", "/", "e", "x", "a", "m", "p", "l", "e", ".", "c", "o", "m", "/", "w", "a", "t", "c", "h", "?", "v", "=", "a", "b", "c", "d", "e", "f", "g", "h", "i", "j", "k">>,
      <<"y", "o", "u", "t", "u", ".", "b", "e", "/", "a", "b", "c", "d", "e", "f", "g", "h", "i", "j">>,
      WatchLink,
      <<"y", "o", "u", "t", "u", ".", "b", "e", "/", "a", "b", "c", "_", "D", "E", "F", "-", "1", "2", "3">>,
      <<"y", "o", "u", "t", "u", "b", "e", ".", "c", "o", "m", "/", "s", "h", "o", "r", "t", "s", "/", "0", "0", "0", "0", "0", "0", "0", "0", "0", "0", "0", "x">>,
      <<"y", "o", "u", "t", "u", "b", "e", ".", "c", "o", "m", "/", "e", "m", "b", "e", "d", "/", "B", "B", "B", "B", "B", "B", "B", "B", "B", "B", "B", "?", "y", "o", "u", "t", "u", ".", "b", "e", "/", "A", "A", "A", "A", "A", "A", "A", "A", "A", "A", "A">> }

\* What request.json() gives: it rejects (no body, a body that is no JSON) or
\* the destructuring of its result throws; or an object with its url.
SummarizeBodies ==
    { [ threw |-> Error(m) ] : m \in BodyMessages }
    \cup { [ url |-> NoUrl ] }
    \cup { [ url |-> u ] : u \in UrlOfNoString }
    \cup { [ url |-> [ truthy |-> TRUE, isString |-> TRUE, text |-> t ] ] : t \in UrlStrings }

\* The body has a url that extractVideoId finds an id in.
hasVideoId(body) ==
    /\ "url" \in DOMAIN body
    /\ body.url.truthy
    /\ body.url.isString
    /\ extractVideoId(body.url.text) # NoVideoId

\* No video is asked for.
NoVideo == [ ok |-> FALSE ]

\* What the player API may answer to a request with the body: each of its
\* answers to the first link, and one answer to the other links (the answer
\* is none of the link's spelling).
playerResponsesTo(body) ==
    IF ~hasVideoId(body) THEN { NoVideo }
    ELSE IF body.url.text = WatchLink THEN PlayerResponses
    ELSE { Lecture }

\* const videoId and let videoData of POST: what the handler holds of the
\* video while it awaits the completion service; nothing for a body without
\* a link and for a video without a transcript.
NoVideoData == [ videoId |-> NoVideoId, title |-> "" ]

videoDataOf(body, player) ==
    IF hasVideoId(body) /\ "threw" \notin DOMAIN getTranscript(player)
    THEN [ videoId |-> extractVideoId(body.url.text),
           title |-> getTranscript(player).title ]
    ELSE NoVideoData

\* POST of the summarize route, to the first call of the completion service.
\* The route asks for no session.
SummarizeStart ==
    /\ pc = "idle"
    /\ \E body \in SummarizeBodies :
        \E player \in playerResponsesTo(body) :
            /\ request' = [ route |-> "summarize", session |-> NoSession,
                            workspaceId |-> Absent, documentId |-> Absent,
                            question |-> <<>>, body |-> body, player |-> player,
                            video |-> videoDataOf(body, player) ]
            /\ UNCHANGED <<scope, selection, context, webContext>>
            /\ IF "threw" \in DOMAIN body
               THEN /\ Respond(ErrorResponse(500, errorMessage(body.threw,
                                                               "Failed to generate notes")))
                    /\ trace' = <<>>
                    /\ UNCHANGED modelIndex
               ELSE IF ~body.url.truthy
               THEN /\ Respond(ErrorResponse(400, "YouTube URL is required"))
                    /\ trace' = <<>>
                    /\ UNCHANGED modelIndex
               ELSE IF ~body.url.isString
               THEN /\ Respond(ErrorResponse(500, errorMessage(body.url.threw,
                                                               "Failed to generate notes")))
                    /\ trace' = <<>>
                    /\ UNCHANGED modelIndex
               ELSE IF extractVideoId(body.url.text) = NoVideoId
               THEN /\ Respond(ErrorResponse(400,
                            "Invalid YouTube URL. Please paste a valid YouTube video link."))
                    /\ trace' = <<>>
                    /\ UNCHANGED modelIndex
               ELSE IF "threw" \in DOMAIN getTranscript(player)
               THEN /\ Respond(ErrorResponse(422,
                            "Could not extract transcript: "
                            \o errorMessage(getTranscript(player).threw, "Unknown error")))
                    /\ trace' = <<"getTranscript">>
                    /\ UNCHANGED modelIndex
               ELSE \E apiKey \in BOOLEAN :
                        CallFirstModel(apiKey, "summarizeModel", <<"getTranscript">>)
    /\ UNCHANGED <<callVars, documents, storeVars>>

\* The summarize route from a reply of the completion service on.
SummarizeModelReply ==
    /\ pc = "summarizeModel"
    /\ \E outcome \in CompletionOutcomes :
        IF outcome \in {"text", "empty"}
        THEN /\ Respond([ status |-> 200,
                          title |-> request.video.title,
                          videoId |-> request.video.videoId,
                          notes |-> outcome ])
             /\ trace' = Append(trace, outcome)
             /\ UNCHANGED modelIndex
        ELSE ModelFailed(outcome)
    /\ UNCHANGED <<callVars, documents, storeVars, request, scope, selection, context,
                   webContext>>

InitRoutes ==
    /\ pc = "idle"
    /\ text = <<>>
    /\ chunks = <<>>
    /\ chunk = <<>>
    /\ question = <<>>
    /\ score = [num |-> 0, den |-> 1]
    /\ scoreTwice = [num |-> 0, den |-> 1]
    /\ loop = NotLooping
    /\ asks = NoAsks
    /\ page = NoPage
    /\ documents \in DocumentTables
    /\ users = [ u \in UserIds |-> [ InitialUsers[u] EXCEPT !.isApproved = TRUE ] ]
    /\ cookies = UserIds
    /\ workspaces = << [ id |-> 1, userId |-> 1 ] >>
    /\ serial = [ documents |-> Len(documents), workspaces |-> 1 ]
    /\ deleting = NotDeleting
    /\ signingIn = NotSigningIn
    /\ request = NoRequest
    /\ scope = <<>>
    /\ selection = <<>>
    /\ context = <<>>
    /\ webContext = FALSE
    /\ modelIndex = 0
    /\ trace = <<>>
    /\ response = NoResponse

NextRoutes ==
    \/ AskStart
    \/ AskModelReply
    \/ LegacyStart
    \/ LegacyModelReply
    \/ DeepStart
    \/ DeepModelReply
    \/ SummarizeStart
    \/ SummarizeModelReply

SpecRoutes == InitRoutes /\ [][NextRoutes]_vars

\* The completion service answers every call, with a text or with an error.
SpecRoutesFair ==
    /\ SpecRoutes
    /\ WF_vars(AskModelReply)
    /\ WF_vars(LegacyModelReply)
    /\ WF_vars(DeepModelReply)
    /\ WF_vars(SummarizeModelReply)

\* The runtime runs every handler up to its first await.  Whether a call of
\* the completion service ever settles is not for the handler to say: it
\* awaits generateContent with no timeout and no abort signal.
SpecRoutesHandlersFair ==
    /\ SpecRoutes
    /\ WF_vars(AskStart \/ LegacyStart \/ DeepStart \/ SummarizeStart)

\* The request has passed its checks and the selector has just returned.
SelectorReturned(route) ==
    /\ request.route = route
    /\ pc \in {"askModel", "legacyModel", "deepModel"}
    /\ modelIndex = 1

\* The rows in scope of the request under way, with their contents.
RowsInScope ==
    SelectSeq(documents, LAMBDA r : \E i \in 1..Len(scope) : scope[i].id = r.id)

\* Every chunk of every row in scope with its score, in input order, as the
\* route's selector holds them.
Candidates ==
    IF request.route = "deep"
    THEN withoutDocumentId(allScored(RowsInScope, request.question))
    ELSE allScored(RowsInScope, request.question)

\* The place of the j-th candidate in a stable score-descending sort: behind
\* every candidate of higher score and every earlier candidate of equal score.
StableRank(all, j) ==
    1 + Cardinality({ i \in 1..Len(all) : ScoreCmp(all[i].score, all[j].score) > 0 })
      + Cardinality({ i \in 1..(j - 1) : ScoreCmp(all[i].score, all[j].score) = 0 })

IsStablePrefix(sel, all) ==
    \A p \in 1..Len(sel) :
        \E j \in 1..Len(all) : StableRank(all, j) = p /\ sel[p] = all[j]

\* C7: the selection of the ask and deep-search routes is a prefix of the
\* stable score-descending sort of all chunks of all documents in scope:
\* higher scores first, equal scores in input order (document position, then
\* chunk index), nothing left out that beats a selected chunk.
C7_StableScoreOrder ==
    (SelectorReturned("ask") \/ SelectorReturned("deep")) =>
        \A all \in { Candidates } : IsStablePrefix(selection, all)

\* Chunks were cut, equal scores and different scores met, and a later chunk
\* of a document went before an earlier one.
C7_Witness ==
    /\ SelectorReturned("ask")
    /\ Len(selection) = 8
    /\ \E p \in 1..7 : ScoreCmp(selection[p].score, selection[p + 1].score) = 0
    /\ \E p \in 1..7 :
          /\ selection[p].documentId = selection[p + 1].documentId
          /\ selection[p].index > selection[p + 1].index
    /\ Len(allScored(RowsInScope, request.question)) > 8

\* The number of chunks of the rows docs[k..].
RECURSIVE TotalChunks(_, _)
TotalChunks(docs, k) ==
    IF k > Len(docs) THEN 0
    ELSE Len(chunkText(docs[k].content, DefaultChunkSize, DefaultOverlap))
         + TotalChunks(docs, k + 1)

\* C8: the selector returns min(topK, chunks in scope) entries, topK being 8
\* in the ask route and 5 in the legacy (single-document) route and in the
\* deep-search route.
C8_TopKBound ==
    /\ SelectorReturned("ask") =>
          Len(selection) = Min2(8, TotalChunks(RowsInScope, 1))
    /\ SelectorReturned("legacy") =>
          Len(selection) = Min2(5, TotalChunks(RowsInScope, 1))
    /\ SelectorReturned("deep") =>
          Len(selection) = Min2(5, TotalChunks(RowsInScope, 1))

C8_Witness ==
    /\ SelectorReturned("ask")
    /\ Len(selection) = 8
    /\ Len(scope) > 1
    /\ TotalChunks(RowsInScope, 1) > 8

\* The k-th smallest element of a set of numbers.
KthOf(S, k) == CHOOSE x \in S : Cardinality({ y \in S : y <= x }) = k

\* The context holds chunks of the one document in scope in ascending order of
\* their in-document index.
AscendingIndexContext ==
    IF request.route = "legacy"
    THEN \A cs \in { chunkText(RowsInScope[1].content, DefaultChunkSize, DefaultOverlap) } :
            \E S \in SUBSET (1..Len(cs)) :
                /\ Cardinality(S) = Len(context)
                /\ \A p \in 1..Len(context) : context[p].chunk = cs[KthOf(S, p)]
    ELSE /\ \A p \in 1..Len(context) : context[p].chunk = selection[p].chunk
         /\ \A p \in 1..(Len(selection) - 1) :
                selection[p].index < selection[p + 1].index

ScoreDescendingContext ==
    /\ \A p \in 1..Len(context) : context[p].chunk = selection[p].chunk
    /\ \A p \in 1..(Len(selection) - 1) :
            ScoreCmp(selection[p].score, selection[p + 1].score) >= 0

\* C9: with exactly one document in scope (legacy route, documentId-only
\* request to the ask route, workspace of one document) the context is in
\* ascending index order; with more than one it is in score-descending order.
C9_ContextOrder ==
    (\E route \in {"ask", "legacy", "deep"} : SelectorReturned(route) /\ Len(scope) > 0) =>
        IF Len(scope) = 1 THEN AscendingIndexContext ELSE ScoreDescendingContext

\* The selection with the documentId of each chunk.
SelectionWithIds ==
    IF request.route = "ask" THEN selection
    ELSE getRelevantChunksMultiDoc(RowsInScope, request.question, SingleDocTopK)

\* The citation groups when grouped by source document: a group per document
\* with a selected chunk, in the order of each document's first selected chunk,
\* holding the document's selected chunks in selection order.
GroupsByDocument(sel) ==
    [ g \in 1..Cardinality({ sel[p].documentId : p \in 1..Len(sel) }) |->
        \* the position of the first chunk of the g-th document to appear
        LET first == KthOf({ p \in 1..Len(sel) :
                               \A r \in 1..(p - 1) :
                                   sel[r].documentId # sel[p].documentId }, g)
            own == SelectSeq(sel, LAMBDA c : c.documentId = sel[first].documentId)
        IN  [ filename |-> sel[first].filename,
              chunks |-> [ i \in 1..Len(own) |->
                             [ index |-> own[i].index + 1,
                               preview |-> preview(own[i].chunk) ] ] ] ]

\* C10: the citation groups of the ask and deep-search routes hold the chunks
\* of one source document each, two documents never share a group (same
\* filename or not), the groups are in the order of each document's first
\* selected chunk and every selected chunk is in exactly one group once.
C10_GroupsByDocument ==
    /\ (pc = "responded" /\ request.route = "ask" /\ response.status = 200) =>
          response.sources = GroupsByDocument(SelectionWithIds)
    /\ (pc = "responded" /\ request.route = "deep" /\ response.status = 200) =>
          response.docSources = GroupsByDocument(SelectionWithIds)

\* The ties the tables of the model give: both scores are 0, both have the
\* same divisor, or the divisors are 1 and 4 (whose square roots are exact).
TiesAreExact ==
    (SelectorReturned("ask") \/ SelectorReturned("deep")) =>
        \A all \in { Candidates } :
            \A i, j \in 1..Len(all) :
                ScoreCmp(all[i].score, all[j].score) = 0 =>
                    \/ all[i].score.num = 0 /\ all[j].score.num = 0
                    \/ all[i].score.den = all[j].score.den
                    \/ {all[i].score.den, all[j].score.den} \subseteq {1, 4}

\* The request was answered with status 200.
Answered(route) ==
    /\ pc = "responded"
    /\ request.route = route
    /\ response.status = 200

\* The citation groups of a response of the ask or deep-search route.
GroupsOf(r) == IF request.route = "ask" THEN r.sources ELSE r.docSources

\* C11: within each citation group of the ask and deep-search routes the
\* chunks are listed in ascending in-document index order, whatever their
\* scores.
C11_GroupChunksAscending ==
    (Answered("ask") \/ Answered("deep")) =>
        \A g \in 1..Len(GroupsOf(response)) :
            \A p \in 1..(Len(GroupsOf(response)[g].chunks) - 1) :
                GroupsOf(response)[g].chunks[p].index
                    < GroupsOf(response)[g].chunks[p + 1].index

\* The citation e is the chunk at the position e.index (counted from 1) of a
\* row of that filename.
CitedAt(rows, filename, e) ==
    \E i \in 1..Len(rows) :
        /\ rows[i].filename = filename
        /\ \A cs \in { chunkText(rows[i].content, DefaultChunkSize, DefaultOverlap) } :
              /\ e.index \in 1..Len(cs)
              /\ preview(cs[e.index]) = e.preview

\* C12: in every question-answering path the index of a citation is the
\* chunk's zero-based index within its source document plus one: the chunk at
\* that position of the document is the chunk cited.
C12_CitationIndex ==
    /\ (Answered("ask") \/ Answered("deep")) =>
          \A g \in 1..Len(GroupsOf(response)) :
              \A p \in 1..Len(GroupsOf(response)[g].chunks) :
                  CitedAt(RowsInScope, GroupsOf(response)[g].filename,
                          GroupsOf(response)[g].chunks[p])
    /\ Answered("legacy") =>
          \A p \in 1..Len(response.chunks) :
              CitedAt(RowsInScope, RowsInScope[1].filename, response.chunks[p])

\* The number of non-whitespace characters of a question.
NonWhitespaceCount(q) == Cardinality({ i \in 1..Len(q) : ~IsWs(q[i]) })

\* The request is to one of the question-answering routes.
Asking == request.route \in {"ask", "legacy", "deep"}

TooShortMessages ==
    { "Please ask a more specific question.",
      "Question is too short. Please ask a more specific question." }

\* C13: a question with fewer than 3 non-whitespace characters is rejected
\* with an error response before any document fetch, chunking, scoring, web
\* search or completion call; a question with at least 3 is not rejected by
\* the length check.
C13_ShortQuestionRejected ==
    /\ (Asking /\ NonWhitespaceCount(request.question) < 3) =>
          /\ pc = "responded"
          /\ response.status >= 400
          /\ trace = <<>>
    /\ (Asking /\ pc = "responded" /\ NonWhitespaceCount(request.question) >= 3) =>
          (response.status = 400 => response.error \notin TooShortMessages)

\* The request got past the session and body checks.
PassedValidation ==
    /\ request.route \in {"ask", "legacy", "deep"}
    /\ ~(pc = "responded" /\ response.status \in {400, 401})

\* The rows the request names that its user owns: those of the workspace, or
\* the one of the documentId when the route takes one and no workspace is
\* named.
NamedOwnRows ==
    SelectSeq(documents, LAMBDA d :
        /\ d.userId = request.session
        /\ IF request.workspaceId # Absent
           THEN d.workspaceId = request.workspaceId
           ELSE request.documentId # Absent /\ d.id = request.documentId)

\* The generateContent calls of the request: the models called, in order.
ModelCalls == SelectSeq(trace, LAMBDA e : \E m \in 1..Len(Models) : Models[m] = e)

EndedNotFound == pc = "responded" /\ response.status = 404

\* C14 as claimed: in the three routes a request with no document in scope
\* ends with a not-found error and never calls the completion service.
C14_NoDocumentsNotFound ==
    (PassedValidation /\ Len(NamedOwnRows) = 0) =>
        EndedNotFound /\ ModelCalls = <<>>

\* What the routes do with no document in scope: the ask and legacy routes
\* answer not found without a call; the deep-search route answers not found
\* (or the configuration error when no API key is set) only when the web
\* search gave no context either, and with web context calls the service on
\* the web context alone.
NoDocumentsUnlessWeb ==
    (PassedValidation /\ Len(NamedOwnRows) = 0) =>
        IF request.route \in {"ask", "legacy"}
        THEN EndedNotFound /\ ModelCalls = <<>>
        ELSE IF ~webContext
        THEN /\ pc = "responded"
             /\ ModelCalls = <<>>
             /\ \/ response.status = 404
                \/ response = ErrorResponse(500, "GEMINI_API_KEY is not configured")
        ELSE \/ /\ Len(ModelCalls) > 0
                /\ context = <<>>
             \/ response = ErrorResponse(500, "GEMINI_API_KEY is not configured")

IsModel(e) == \E m \in 1..Len(Models) : Models[m] = e

\* The text of the successful call is what the response carries as its answer
\* (the notes of the summarize route).
AnswerIs(t) ==
    /\ response.status = 200
    /\ IF request.route = "summarize" THEN response.notes = t ELSE response.answer = t

\* C15: within one request the models are called in list order, each at most
\* once; model N+1 is called only after model N failed with a rate-limit error
\* and the delay; the first successful call ends the loop and its text is the
\* answer; another failure ends the loop and is propagated, no model tried
\* after it.
C15_FallbackOrder ==
    /\ ModelCalls = SubSeq(Models, 1, Len(ModelCalls))
    /\ \A k \in 1..Len(trace) :
          /\ (IsModel(trace[k]) /\ trace[k] # Models[1]) =>
                /\ k > 3
                /\ IsModel(trace[k - 3])
                /\ trace[k - 2] = "rateLimited"
                /\ trace[k - 1] = "delay"
          /\ trace[k] \in {"text", "empty"} =>
                /\ k = Len(trace)
                /\ pc = "responded"
                /\ AnswerIs(trace[k])
          /\ trace[k] = "error" =>
                /\ k = Len(trace)
                /\ pc = "responded"
                /\ response = ErrorResponse(500, "generateContent failed")

\* The order of the calls alone, which holds in the four routes.
C15_CallOrderOnly ==
    /\ ModelCalls = SubSeq(Models, 1, Len(ModelCalls))
    /\ \A k \in 1..Len(trace) :
          /\ (IsModel(trace[k]) /\ trace[k] # Models[1]) =>
                /\ k > 3
                /\ IsModel(trace[k - 3])
                /\ trace[k - 2] = "rateLimited"
                /\ trace[k - 1] = "delay"
          /\ trace[k] \in {"text", "empty", "error"} =>
                k = Len(trace) /\ pc = "responded"

\* Every model of the list was called and reported rate-limiting.
AllRateLimited ==
    Len(SelectSeq(trace, LAMBDA e : e = "rateLimited")) = Len(Models)

\* C16: when every model of the list reports rate-limiting the request ends,
\* the list is not tried again, and the response is the error with the
\* rate-limit message and no answer; every request that got past validation
\* ends with a response, and a response once given is the only one.
C16_ExhaustionIsTerminal ==
    /\ [](AllRateLimited =>
            /\ pc = "responded"
            /\ ModelCalls = Models
            /\ response = ErrorResponse(500, RateLimitedMessage))
    /\ [][pc = "responded" => (pc' = "responded" /\ response' = response)]_vars
    /\ (pc # "idle") ~> (pc = "responded")


(***************************************************************************)
(* Tenants: what a request sees of another user's rows                     *)
(***************************************************************************)

\* The rows of the table that the requesting session's user owns.
OwnRows == SelectSeq(documents, LAMBDA d : d.userId = request.session)

\* The chunks of the rows that the session's user owns, each with its row's
\* filename and its preview.
OwnChunks ==
    UNION { UNION { { [ filename |-> OwnRows[i].filename, chunk |-> cs[k],
                        preview |-> preview(cs[k]) ] : k \in 1..Len(cs) } :
                    cs \in { chunkText(OwnRows[i].content, DefaultChunkSize,
                                       DefaultOverlap) } } :
            i \in 1..Len(OwnRows) }

\* What a request that names no row of its user's comes to: not found in the
\* ask and legacy routes, no document part in the deep-search route.
NothingNamedResult ==
    /\ scope = <<>>
    /\ selection = <<>>
    /\ context = <<>>
    /\ request.route = "ask" =>
          response = ErrorResponse(404, "No documents found")
    /\ request.route = "legacy" =>
          response = ErrorResponse(404, "Document not found")
    /\ (request.route = "deep" /\ response.status = 200) =>
          response.docSources = <<>> /\ ~response.hasDocContext

\* C17: every chunk in the prompt context or in the citation list of a request
\* comes from a document the requesting session's user owns, whatever rows of
\* other users the table holds; a request naming another user's documentId or
\* workspaceId gets what a request naming an id of no row gets.
C17_OwnDocumentsOnly ==
    (PassedValidation /\ pc # "idle") =>
        /\ scope = scopeOf(NamedOwnRows)
        /\ (Len(NamedOwnRows) = 0 /\ pc = "responded") => NothingNamedResult
        /\ Len(context) > 0 =>
              \A own \in { OwnChunks } :
                  /\ \A i \in 1..Len(context) :
                        \E c \in own :
                            /\ c.chunk = context[i].chunk
                            /\ c.filename = IF request.route = "legacy"
                                            THEN scope[1].filename
                                            ELSE context[i].filename
                  /\ (Answered("ask") \/ Answered("deep")) =>
                        \A g \in 1..Len(GroupsOf(response)) :
                            \A p \in 1..Len(GroupsOf(response)[g].chunks) :
                                \E c \in own :
                                    /\ c.preview = GroupsOf(response)[g].chunks[p].preview
                                    /\ c.filename = GroupsOf(response)[g].filename
                  /\ Answered("legacy") =>
                        \A p \in 1..Len(response.chunks) :
                            \E c \in own :
                                /\ c.preview = response.chunks[p].preview
                                /\ c.filename = scope[1].filename

\* Another user's row is in the workspace the request names.
ForeignRowNamed ==
    \E i \in 1..Len(documents) :
        /\ documents[i].userId # request.session
        /\ IF request.workspaceId # Absent
           THEN documents[i].workspaceId = request.workspaceId
           ELSE documents[i].id = request.documentId

\* A request answered from the user's own rows of a workspace that holds
\* another user's row too.
C17_Witness ==
    /\ Answered("ask")
    /\ request.workspaceId # Absent
    /\ ForeignRowNamed
    /\ Len(response.sources) > 0

\* A request naming another user's documentId is answered not found.
ForeignDocumentNotFound ==
    /\ pc = "responded"
    /\ request.route = "legacy"
    /\ ForeignRowNamed
    /\ response = ErrorResponse(404, "Document not found")

(***************************************************************************)
(* The accounts and the store: login, the admin's PATCH of a user, upload, *)
(* document DELETE, workspace POST and DELETE.  A handler runs in one      *)
(* step, but for the workspace DELETE, whose two statements other requests *)
(* can come between.                                                       *)
(***************************************************************************)

\* The request of a handler that is not a question-answering route.
StoreRequest(route, session, workspaceId, documentId) ==
    [ route |-> route, session |-> session, workspaceId |-> workspaceId,
      documentId |-> documentId, question |-> <<>> ]

\* What the login form posts: a field missing, an email of no user, a user's
\* email with a wrong password or with the right one.
Credentials == {"missing", "unknown", "wrong", "valid"}

\* setAuthCookie(createToken(user)): the user's later requests carry the
\* cookie, and getSession() gives them the user's id.
setAuthCookie(userId) == cookies \cup {userId}

\* POST of the login route, to the end of its query: the row of the user is
\* read here, and the handler then waits for verifyPassword.
LoginStart ==
    /\ pc = "idle"
    /\ signingIn = NotSigningIn
    /\ \E userId \in UserIds, credentials \in Credentials :
        /\ request' = StoreRequest("login", NoSession, Absent, Absent)
        /\ IF credentials = "missing"
           THEN /\ response' = ErrorResponse(400, "Email and password are required")
                /\ UNCHANGED signingIn
           ELSE IF credentials = "unknown"
           THEN /\ response' = ErrorResponse(401, "Invalid email or password")
                /\ UNCHANGED signingIn
           ELSE /\ response' = NoResponse
                /\ signingIn' = [ userId |-> userId,
                                  role |-> users[userId].role,
                                  isApproved |-> users[userId].isApproved,
                                  isValid |-> credentials = "valid" ]
    /\ UNCHANGED <<pc, callVars, documents, scope, selection, context, webContext,
                   modelIndex, trace, users, cookies, workspaces, serial, deleting>>

\* POST of the login route, from the result of verifyPassword on: the cookie
\* is set and the response tells role and isApproved of the row that was read.
LoginFinish ==
    /\ pc = "idle"
    /\ signingIn # NotSigningIn
    /\ request' = StoreRequest("login", NoSession, Absent, Absent)
    /\ IF ~signingIn.isValid
       THEN /\ response' = ErrorResponse(401, "Invalid email or password")
            /\ UNCHANGED cookies
       ELSE /\ cookies' = setAuthCookie(signingIn.userId)
            /\ response' = [ status |-> 200, id |-> signingIn.userId,
                             role |-> signingIn.role,
                             isApproved |-> signingIn.isApproved ]
    /\ signingIn' = NotSigningIn
    /\ UNCHANGED <<pc, callVars, documents, scope, selection, context, webContext,
                   modelIndex, trace, users, workspaces, serial, deleting>>

\* The userId of a PATCH body when it is a number: a user's id, or the id of
\* no user.
PatchUserIds == UserIds \cup {Cardinality(UserIds) + 1}

\* The PATCH request with its body: wellTyped is whether userId is a number
\* and isApproved a boolean.
PatchRequest(session, userId, isApproved, wellTyped) ==
    [ route |-> "patchUser", session |-> session, workspaceId |-> Absent,
      documentId |-> Absent, question |-> <<>>,
      body |-> [ userId |-> userId, isApproved |-> isApproved,
                 wellTyped |-> wellTyped ] ]

\* A test that lets every signed-in caller through.
isSignedIn(session) == session # NoSession

\* !(!session || session.role !== 'admin')
isAdmin(session) == session # NoSession /\ users[session].role = "admin"

\* PATCH of the admin users route.
PatchUser ==
    /\ pc = "idle"
    /\ \E session \in Sessions, userId \in PatchUserIds,
          isApproved \in BOOLEAN, wellTyped \in BOOLEAN :
        /\ request' = PatchRequest(session, userId, isApproved, wellTyped)
        /\ IF ~isAdmin(session)
           THEN /\ response' = ErrorResponse(403, "Unauthorized")
                /\ UNCHANGED users
           ELSE IF ~wellTyped
           THEN /\ response' = ErrorResponse(400, "Invalid request body")
                /\ UNCHANGED users
           ELSE IF userId \notin UserIds
           THEN /\ response' = ErrorResponse(404, "User not found")
                /\ UNCHANGED users
           ELSE /\ users' = [ users EXCEPT ![userId].isApproved = isApproved ]
                /\ response' = [ status |-> 200, id |-> userId,
                                 isApproved |-> isApproved ]
    /\ UNCHANGED <<pc, callVars, documents, scope, selection, context, webContext,
                   modelIndex, trace, cookies, workspaces, serial, deleting, signingIn>>

\* What the upload form carries as its file: none, one over 10MB, one that is
\* neither .pdf nor .txt, one the text extraction throws on, one it reads.
UploadFiles == {"none", "tooLarge", "unsupported", "unreadable", "readable"}

\* The text the extraction reads from the file.
UploadContents == { <<>>, <<" ", "\n">>, CatOnly, CatCatDog }

\* workspaceIdStr ? parseInt(workspaceIdStr, 10) : null
formWorkspaceId(workspaceId) ==
    IF workspaceId # Absent THEN workspaceId ELSE NoWorkspace

\* An upload that writes over the row the user has under the filename.
insertDocumentOverFilename(rows, userId, workspaceId, filename, content) ==
    IF \E i \in 1..Len(rows) : rows[i].userId = userId /\ rows[i].filename = filename
    THEN [ i \in 1..Len(rows) |->
             IF rows[i].userId = userId /\ rows[i].filename = filename
             THEN [ rows[i] EXCEPT !.workspaceId = workspaceId, !.content = content ]
             ELSE rows[i] ]
    ELSE Append(rows, Row(serial.documents + 1, userId, workspaceId, filename, content))

\* db.insert(documents).values({...}).returning(): the row gets the next id
\* of the serial column.
insertDocument(rows, userId, workspaceId, filename, content) ==
    Append(rows, Row(serial.documents + 1, userId, workspaceId, filename, content))

\* POST of the upload route.
Upload ==
    /\ pc = "idle"
    /\ serial.documents < MaxDocs
    /\ \E session \in Sessions, file \in UploadFiles, content \in UploadContents,
          workspaceId \in WorkspaceIds :
        /\ request' = StoreRequest("upload", session, workspaceId, Absent)
        /\ IF session = NoSession
           THEN /\ response' = ErrorResponse(401, "Unauthorized")
                /\ UNCHANGED <<documents, serial>>
           ELSE IF file = "none"
           THEN /\ response' = ErrorResponse(400, "No file provided")
                /\ UNCHANGED <<documents, serial>>
           ELSE IF file = "tooLarge"
           THEN /\ response' = ErrorResponse(400, "File too large. Maximum size is 10MB.")
                /\ UNCHANGED <<documents, serial>>
           ELSE IF file = "unsupported"
           THEN /\ response' = ErrorResponse(400,
                        "Unsupported file type. Please upload a PDF or TXT file.")
                /\ UNCHANGED <<documents, serial>>
           ELSE IF file = "unreadable"
           THEN /\ response' = ErrorResponse(400,
                                   "Failed to extract text from the file. The file may be corrupted or password-protected.")
                /\ UNCHANGED <<documents, serial>>
           ELSE IF Len(content) = 0 \/ Len(trim(content)) = 0
           THEN /\ response' = ErrorResponse(400,
                                   "No text content found in the file. The file may be image-based or empty.")
                /\ UNCHANGED <<documents, serial>>
           ELSE /\ documents' = insertDocument(documents, session,
                                               formWorkspaceId(workspaceId),
                                               "a.txt", content)
                /\ serial' = [ serial EXCEPT !.documents = @ + 1 ]
                /\ response' = [ status |-> 200, id |-> serial.documents + 1,
                                 filename |-> "a.txt" ]
    /\ UNCHANGED <<pc, callVars, scope, selection, context, webContext, modelIndex,
                   trace, users, cookies, workspaces, deleting, signingIn>>

\* db.delete(documents).where(and(eq(documents.id, documentId),
\* eq(documents.userId, session.userId))): the rows it leaves.
withoutDocument(rows, userId, documentId) ==
    SelectSeq(rows, LAMBDA d : ~(d.id = documentId /\ d.userId = userId))

\* DELETE of the documents route.
DeleteDocument ==
    /\ pc = "idle"
    /\ \E session \in Sessions, documentId \in DocumentIds :
        /\ request' = StoreRequest("deleteDocument", session, Absent, documentId)
        /\ IF session = NoSession
           THEN /\ response' = ErrorResponse(401, "Unauthorized")
                /\ UNCHANGED documents
           ELSE IF documentId = Absent
           THEN /\ response' = ErrorResponse(400, "Document ID is required")
                /\ UNCHANGED documents
           ELSE /\ documents' = withoutDocument(documents, session, documentId)
                /\ response' = IF Len(documents') = Len(documents)
                               THEN ErrorResponse(404, "Document not found")
                               ELSE [ status |-> 200, success |-> TRUE ]
    /\ UNCHANGED <<pc, callVars, scope, selection, context, webContext, modelIndex,
                   trace, storeVars>>

\* The name of a workspace POST body: none or blank, over 100 characters, or
\* a name the route takes.
WorkspaceNames == {"blank", "tooLong", "named"}

\* POST of the workspaces route; the ids requests name are those of
\* WorkspaceIds, and no more workspaces are made than these.
CreateWorkspace ==
    /\ pc = "idle"
    /\ serial.workspaces + 1 \in WorkspaceIds
    /\ \E session \in Sessions, name \in WorkspaceNames :
        /\ request' = StoreRequest("createWorkspace", session, Absent, Absent)
        /\ IF session = NoSession
           THEN /\ response' = ErrorResponse(401, "Unauthorized")
                /\ UNCHANGED <<workspaces, serial>>
           ELSE IF name = "blank"
           THEN /\ response' = ErrorResponse(400, "Workspace name is required")
                /\ UNCHANGED <<workspaces, serial>>
           ELSE IF name = "tooLong"
           THEN /\ response' = ErrorResponse(400, "Name must be under 100 characters")
                /\ UNCHANGED <<workspaces, serial>>
           ELSE /\ workspaces' = Append(workspaces,
                                        [ id |-> serial.workspaces + 1,
                                          userId |-> session ])
                /\ serial' = [ serial EXCEPT !.workspaces = @ + 1 ]
                /\ response' = [ status |-> 201, id |-> serial.workspaces + 1 ]
    /\ UNCHANGED <<pc, callVars, documents, scope, selection, context, webContext,
                   modelIndex, trace, users, cookies, deleting, signingIn>>

\* db.delete(documents).where(and(eq(documents.workspaceId, workspaceId),
\* eq(documents.userId, session.userId))): the rows it leaves.
withoutWorkspaceDocuments(rows, userId, workspaceId) ==
    SelectSeq(rows, LAMBDA d : ~(d.workspaceId = workspaceId /\ d.userId = userId))

\* DELETE of the workspaces route, to the end of its first statement: the
\* caller's documents of the workspace are deleted before the workspace is
\* looked for.
DeleteWorkspaceStart ==
    /\ pc = "idle"
    /\ deleting = NotDeleting
    /\ \E session \in Sessions, workspaceId \in WorkspaceIds :
        /\ request' = StoreRequest("deleteWorkspace", session, workspaceId, Absent)
        /\ IF session = NoSession
           THEN /\ response' = ErrorResponse(401, "Unauthorized")
                /\ UNCHANGED <<documents, deleting>>
           ELSE IF workspaceId = Absent
           THEN /\ response' = ErrorResponse(400, "Workspace ID is required")
                /\ UNCHANGED <<documents, deleting>>
           ELSE /\ documents' = withoutWorkspaceDocuments(documents, session, workspaceId)
                /\ deleting' = [ session |-> session, workspaceId |-> workspaceId,
                                 removed |-> Len(documents) - Len(documents') ]
                /\ response' = NoResponse
    /\ UNCHANGED <<pc, callVars, scope, selection, context, webContext, modelIndex,
                   trace, users, cookies, workspaces, serial, signingIn>>

\* db.delete(workspaces).where(and(eq(workspaces.id, workspaceId),
\* eq(workspaces.userId, session.userId))): the rows it leaves.
withoutWorkspace(rows, userId, workspaceId) ==
    SelectSeq(rows, LAMBDA w : ~(w.id = workspaceId /\ w.userId = userId))

\* DELETE of the workspaces route, from its second statement on.
DeleteWorkspaceFinish ==
    /\ pc = "idle"
    /\ deleting # NotDeleting
    /\ request' = StoreRequest("deleteWorkspace", deleting.session,
                               deleting.workspaceId, Absent)
    /\ workspaces' = withoutWorkspace(workspaces, deleting.session, deleting.workspaceId)
    /\ response' = IF Len(workspaces') = Len(workspaces)
                   THEN ErrorResponse(404, "Workspace not found")
                   ELSE [ status |-> 200, success |-> TRUE ]
    /\ deleting' = NotDeleting
    /\ UNCHANGED <<pc, callVars, documents, scope, selection, context, webContext,
                   modelIndex, trace, users, cookies, serial, signingIn>>

\* The store with both users logged in.
InitStore ==
    /\ pc = "idle"
    /\ text = <<>>
    /\ chunks = <<>>
    /\ chunk = <<>>
    /\ question = <<>>
    /\ score = [num |-> 0, den |-> 1]
    /\ scoreTwice = [num |-> 0, den |-> 1]
    /\ loop = NotLooping
    /\ asks = NoAsks
    /\ page = NoPage
    /\ users = InitialUsers
    /\ cookies = UserIds
    /\ workspaces = <<>>
    /\ serial = [ documents |-> 0, workspaces |-> 0 ]
    /\ deleting = NotDeleting
    /\ signingIn = NotSigningIn
    /\ documents = <<>>
    /\ request = NoRequest
    /\ scope = <<>>
    /\ selection = <<>>
    /\ context = <<>>
    /\ webContext = FALSE
    /\ modelIndex = 0
    /\ trace = <<>>
    /\ response = NoResponse

NextStore ==
    \/ Upload
    \/ DeleteDocument
    \/ CreateWorkspace
    \/ DeleteWorkspaceStart
    \/ DeleteWorkspaceFinish

SpecStore == InitStore /\ [][NextStore]_vars

\* The accounts before anyone has logged in.
InitAccounts ==
    /\ pc = "idle"
    /\ text = <<>>
    /\ chunks = <<>>
    /\ chunk = <<>>
    /\ question = <<>>
    /\ score = [num |-> 0, den |-> 1]
    /\ scoreTwice = [num |-> 0, den |-> 1]
    /\ loop = NotLooping
    /\ asks = NoAsks
    /\ page = NoPage
    /\ NoRequestYet

NextAccounts ==
    \/ LoginStart
    \/ LoginFinish
    \/ PatchUser
    \/ Upload

SpecAccounts == InitAccounts /\ [][NextAccounts]_vars

\* The handlers that read or write the users table: logins and PATCHes, a
\* PATCH also between the two steps of a login.
NextApproval ==
    \/ LoginStart
    \/ LoginFinish
    \/ PatchUser

SpecApproval == InitAccounts /\ [][NextApproval]_vars

(***************************************************************************)
(* Approval                                                                *)
(***************************************************************************)

\* The rows a step adds to the documents table.
StoredByStep(before, after) ==
    SelectSeq(after, LAMBDA d : \A j \in 1..Len(before) : before[j].id # d.id)

\* C18: no document is stored for a user whose account an admin has not
\* approved: the owner of each document has isApproved = true at the time of
\* the upload that stores it.
C18_OnlyApprovedOwners ==
    [][\A i \in 1..Len(StoredByStep(documents, documents')) :
          users[StoredByStep(documents, documents')[i].userId].isApproved]_vars

(***************************************************************************)
(* Stored documents                                                        *)
(***************************************************************************)

\* The rows of rows whose id no row of others has.
RowsNotIn(rows, others) ==
    SelectSeq(rows, LAMBDA d : \A j \in 1..Len(others) : others[j].id # d.id)

\* C19: a stored document's owner, workspace reference, filename and content
\* never change, and the documents table is altered only by an upload, which
\* adds one document, and by a document or workspace DELETE, which removes
\* documents.
C19_DocumentsImmutable ==
    [][/\ \A i \in 1..Len(documents) : \A j \in 1..Len(documents') :
              documents'[j].id = documents[i].id => documents'[j] = documents[i]
       /\ documents' # documents =>
              \/ /\ request'.route = "upload"
                 /\ Len(documents') = Len(documents) + 1
                 /\ SubSeq(documents', 1, Len(documents)) = documents
                 /\ Len(RowsNotIn(documents', documents)) = 1
              \/ /\ request'.route \in {"deleteDocument", "deleteWorkspace"}
                 /\ Len(documents') < Len(documents)
                 /\ Len(RowsNotIn(documents', documents)) = 0]_vars

\* A document DELETE has removed one of two stored documents and left the
\* other, which a user stored in a workspace.
C19_Witness ==
    /\ request.route = "deleteDocument"
    /\ response.status = 200
    /\ serial.documents = 2
    /\ Len(documents) = 1
    /\ documents[1].workspaceId # NoWorkspace
    /\ documents[1].content = CatCatDog

(***************************************************************************)
(* chunkText and scoreChunk called on any string                           *)
(***************************************************************************)

\* A call of chunkText on a text, or of scoreChunk on a chunk and a question.
InitCalls == InitChunk \/ InitScore

NextCalls == NextChunk \/ NextScore

SpecCalls == InitCalls /\ [][NextCalls]_vars

\* A JavaScript string: a sequence of characters.
IsString(s) ==
    /\ DOMAIN s = 1..Len(s)
    /\ \A i \in 1..Len(s) : s[i] \in STRING

\* The text has no character but whitespace.
IsBlank(t) == \A i \in 1..Len(t) : IsWs(t[i])

\* What chunkText returns: an array of strings, empty for a blank text.
IsChunkList(t, cs) ==
    /\ DOMAIN cs = 1..Len(cs)
    /\ \A k \in 1..Len(cs) : IsString(cs[k])
    /\ IsBlank(t) => cs = <<>>

\* What scoreChunk returns: a number, count / Math.sqrt(words) with at least
\* one word.
IsScore(sc) ==
    /\ sc.num \in Nat
    /\ sc.den \in Nat \ {0}

\* C20: with the default parameters chunkText and scoreChunk end with a value
\* for every input string (an array of strings, a number), and chunkText
\* returns no chunk for the empty string and for a string of whitespace only.
C20_TotalOnStrings ==
    /\ pc = "chunkText" =>
          \A cs \in { chunkText(text, DefaultChunkSize, DefaultOverlap) } :
              IsChunkList(text, cs)
    /\ pc = "chunked" => IsChunkList(text, chunks)
    /\ pc = "scoreChunk" =>
          \A sc \in { scoreChunk(chunk, question) } : IsScore(sc)
    /\ pc \in {"scored", "scoredTwice"} => IsScore(score) /\ IsScore(scoreTwice)

\* chunkText has returned for a text of whitespace characters.
C20_Witness ==
    /\ pc = "chunked"
    /\ Len(text) = MaxTextLen
    /\ IsBlank(text)
    /\ chunks = <<>>

(***************************************************************************)
(* chunkText with any chunk size and overlap, its for loop one pass at a   *)
(* time                                                                    *)
(***************************************************************************)

\* Most words of the texts of the loop.
MaxLoopWords == 4

\* Largest chunk size and overlap of the loop.
MaxLoopSize == 3

\* The passes through the loop's body that are followed.
MaxIterations == 6

LoopTexts ==
    { lead \o WordsText(n) \o trail :
        lead \in Margins, n \in 0..MaxLoopWords, trail \in Margins }

InitChunkLoop ==
    /\ pc = "chunkTextLoop"
    /\ text \in LoopTexts
    /\ chunks = <<>>
    /\ chunk = <<>>
    /\ question = <<>>
    /\ score = [num |-> 0, den |-> 1]
    /\ scoreTwice = [num |-> 0, den |-> 1]
    /\ loop \in [ i : {0}, chunkSize : 1..MaxLoopSize, overlap : 0..MaxLoopSize,
                  iterations : {0} ]
    /\ asks = NoAsks
    /\ page = NoPage
    /\ NoRequestYet

\* The test of the for loop and one pass through its body: the test i <
\* words.length, the chunk pushed unless it is blank, the break, i += chunkSize
\* - overlap.
ChunkLoopStep ==
    /\ pc = "chunkTextLoop"
    /\ loop.iterations < MaxIterations
    /\ \E words \in { split(text) } :
         IF ~(loop.i < Len(words))
         THEN /\ pc' = "chunked"
              /\ UNCHANGED <<chunks, loop>>
         ELSE /\ chunks' =
                   IF Len(trim(join(slice(words, loop.i, loop.i + loop.chunkSize)))) > 0
                   THEN Append(chunks,
                               join(slice(words, loop.i, loop.i + loop.chunkSize)))
                   ELSE chunks
              /\ IF loop.i + loop.chunkSize >= Len(words)
                 THEN /\ pc' = "chunked"
                      /\ loop' = [ loop EXCEPT !.iterations = @ + 1 ]
                 ELSE /\ pc' = pc
                      /\ loop' = [ loop EXCEPT
                                     !.i = @ + (loop.chunkSize - loop.overlap),
                                     !.iterations = @ + 1 ]
    /\ UNCHANGED <<text, chunk, question, score, scoreTwice, routeVars, storeVars, asks, page>>

NextChunkLoop == ChunkLoopStep

SpecChunkLoop == InitChunkLoop /\ [][NextChunkLoop]_vars

\* With an overlap below the chunk size the loop followed pass by pass returns
\* what chunkText returns.
LoopReturnsChunkText ==
    (pc = "chunked" /\ loop.overlap < loop.chunkSize) =>
        chunks = chunkText(text, loop.chunkSize, loop.overlap)

\* C21: chunkText called with a chunk size that is at most the overlap is
\* rejected before its loop runs: it makes no pass through the loop's body and
\* emits no chunk; and no call makes more passes, or emits more chunks, than
\* the text has words.
C21_FailFast ==
    /\ loop.chunkSize <= loop.overlap =>
          /\ loop.iterations = 0
          /\ chunks = <<>>
          /\ pc # "chunked"
    /\ loop.iterations <= Len(split(text))
    /\ Len(chunks) <= Len(split(text))

(***************************************************************************)
(* Ask requests side by side.  A handler gives way to other requests at    *)
(* its awaits: the query of the documents and answerWithGemini.  What runs *)
(* between two awaits runs without a break.                                *)
(***************************************************************************)

\* The questions of the requests that run side by side.
ConcurrentQuestions == { <<"a", "t">>, <<"c", "a", "t">>, <<"d", "o", "g">> }

\* The tables they start from: two documents of one user in a workspace, and
\* one document of each user in it.
ConcurrentTables ==
    { << Row(1, 1, 1, "a.txt", CatCatDog), Row(2, 1, 1, "b.txt", CatOnly) >>,
      << Row(1, 1, 1, "a.txt", CatOnly), Row(2, 2, 1, "a.txt", CatCatDog) >> }

\* What answerWithGemini comes to for the handler that awaits it.
AnswerOutcomes == {"text", "threw"}

\* One variable relevantChunks for all the requests.
relevantChunksShared(as, r, sel) ==
    [ q \in DOMAIN as |-> [ as[q] EXCEPT !.selection = sel ] ]

\* const relevantChunks = ... : a local of the request's call of POST.
relevantChunksOf(as, r, sel) == [ as EXCEPT ![r].selection = sel ]

\* POST of the ask route for request r, to its query of the documents; a
\* body without workspaceId (these requests name no document) makes no query
\* and is answered at once.
ConcurrentAskStart(r) ==
    /\ pc = "idle"
    /\ asks[r].pc = "idle"
    /\ \E session \in Sessions, workspaceId \in WorkspaceIds,
          q \in ConcurrentQuestions :
        asks' = [ asks EXCEPT ![r] =
                    [ @ EXCEPT
                        !.session = session,
                        !.workspaceId = workspaceId,
                        !.question = q,
                        !.pc = IF \/ session = NoSession
                                  \/ questionTooShort(q)
                                  \/ workspaceId = Absent
                               THEN "responded" ELSE "fetching",
                        !.response =
                            IF session = NoSession
                            THEN ErrorResponse(401, "Unauthorized")
                            ELSE IF questionTooShort(q)
                            THEN ErrorResponse(400, "Please ask a more specific question.")
                            ELSE IF workspaceId = Absent
                            THEN ErrorResponse(404, "No documents found")
                            ELSE NoResponse ] ]
    /\ UNCHANGED <<pc, text, chunks, chunk, question, score, scoreTwice, loop, page,
                   routeVars, storeVars>>

\* Request r from the result of its query to its call of answerWithGemini.
ConcurrentAskFetched(r) ==
    /\ pc = "idle"
    /\ asks[r].pc = "fetching"
    /\ \E docs \in { docsToSearch(documents, asks[r].session, asks[r].workspaceId,
                                  Absent) } :
         IF noDocumentsFound(docs)
         THEN asks' = [ asks EXCEPT
                          ![r].pc = "responded",
                          ![r].response = ErrorResponse(404, "No documents found") ]
         ELSE asks' = relevantChunksOf(
                          [ asks EXCEPT ![r].pc = "model", ![r].docs = docs ],
                          r,
                          getRelevantChunksMultiDoc(docs, asks[r].question, MultiDocTopK))
    /\ UNCHANGED <<pc, text, chunks, chunk, question, score, scoreTwice, loop, page,
                   routeVars, storeVars>>

\* Request r from the end of answerWithGemini on.
ConcurrentAskReplied(r) ==
    /\ pc = "idle"
    /\ asks[r].pc = "model"
    /\ \E outcome \in AnswerOutcomes :
         asks' = [ asks EXCEPT
                     ![r].pc = "responded",
                     ![r].response =
                         IF outcome = "text"
                         THEN [ status |-> 200,
                                answer |-> outcome,
                                sources |-> sourcesOf(asks[r].selection,
                                                      Len(asks[r].selection)),
                                totalDocuments |-> Len(asks[r].docs) ]
                         ELSE ErrorResponse(500, "generateContent failed") ]
    /\ UNCHANGED <<pc, text, chunks, chunk, question, score, scoreTwice, loop, page,
                   routeVars, storeVars>>

InitConcurrent ==
    /\ pc = "idle"
    /\ text = <<>>
    /\ chunks = <<>>
    /\ chunk = <<>>
    /\ question = <<>>
    /\ score = [num |-> 0, den |-> 1]
    /\ scoreTwice = [num |-> 0, den |-> 1]
    /\ loop = NotLooping
    /\ asks = NoAsks
    /\ page = NoPage
    /\ documents \in ConcurrentTables
    /\ users = [ u \in UserIds |-> [ InitialUsers[u] EXCEPT !.isApproved = TRUE ] ]
    /\ cookies = UserIds
    /\ workspaces = << [ id |-> 1, userId |-> 1 ] >>
    /\ serial = [ documents |-> Len(documents), workspaces |-> 1 ]
    /\ deleting = NotDeleting
    /\ signingIn = NotSigningIn
    /\ request = NoRequest
    /\ scope = <<>>
    /\ selection = <<>>
    /\ context = <<>>
    /\ webContext = FALSE
    /\ modelIndex = 0
    /\ trace = <<>>
    /\ response = NoResponse

NextConcurrent ==
    \/ \E r \in Requests : ConcurrentAskStart(r)
    \/ \E r \in Requests : ConcurrentAskFetched(r)
    \/ \E r \in Requests : ConcurrentAskReplied(r)
    \/ DeleteDocument

SpecConcurrent == InitConcurrent /\ [][NextConcurrent]_vars

\* Request r has made its selection.
HasSelected(as, r) == Len(as[r].docs) > 0

\* The places of the chunks of the rows docs: <<k, i>> is the i-th chunk of the
\* k-th row.
ChunkPlaces(docs) ==
    UNION { { <<k, i>> :
                i \in 1..Len(chunkText(docs[k].content, DefaultChunkSize, DefaultOverlap)) } :
            k \in 1..Len(docs) }

\* The text of the chunk at a place.
ChunkAt(docs, place) ==
    chunkText(docs[place[1]].content, DefaultChunkSize, DefaultOverlap)[place[2]]

\* What the score of the chunk c for the question q is to be, said of the two
\* texts: the non-overlapping occurrences (case ignored) of the question's
\* surviving tokens in the chunk, over the root of the number of the chunk's
\* whitespace-delimited pieces; 0 for a question without surviving tokens.
ExpectedScore(c, q) ==
    IF SurvivingTokens(q) = <<>> THEN [num |-> 0, den |-> 1]
    ELSE [num |-> DisjointTotal(toLowerCase(c), SurvivingTokens(q), 1),
          den |-> Len(split(c))]

\* The chunk at place a goes before the chunk at place b: its score is the
\* higher, or the scores are equal and it is of an earlier row, or of the same
\* row and earlier in it.
GoesBefore(docs, q, a, b) ==
    \A sa \in { ExpectedScore(ChunkAt(docs, a), q) },
       sb \in { ExpectedScore(ChunkAt(docs, b), q) } :
        \/ ScoreCmp(sa, sb) > 0
        \/ /\ ScoreCmp(sa, sb) = 0
           /\ \/ a[1] < b[1]
              \/ a[1] = b[1] /\ a[2] < b[2]

\* sel is the retrieval result for the rows docs and the question q: its p-th
\* entry is the chunk that exactly p - 1 chunks of the rows go before, with
\* the chunk's text, score, zero-based index and the filename and id of its
\* row, and it has topK entries or all the chunks there are.
IsRetrievalResultOf(sel, docs, q, topK) ==
    /\ Len(sel) = Min2(topK, Cardinality(ChunkPlaces(docs)))
    /\ \A p \in 1..Len(sel) :
          \E place \in ChunkPlaces(docs) :
              /\ Cardinality({ o \in ChunkPlaces(docs) : GoesBefore(docs, q, o, place) })
                    = p - 1
              /\ sel[p] = [ chunk |-> ChunkAt(docs, place),
                            score |-> ExpectedScore(ChunkAt(docs, place), q),
                            index |-> place[2] - 1,
                            filename |-> docs[place[1]].filename,
                            documentId |-> docs[place[1]].id ]

\* The first position in sel of an entry with the filename.
FirstOf(sel, filename) ==
    CHOOSE p \in 1..Len(sel) :
        /\ sel[p].filename = filename
        /\ \A o \in 1..(p - 1) : sel[o].filename # filename

\* groups is the grouping of the selection sel: one group for each filename
\* of the selection, the groups in the order in which their filenames first
\* come in the selection, each with the index plus one and the preview of the
\* selection's entries of that filename, in selection order.
IsGroupingOf(groups, sel) ==
    /\ { groups[g].filename : g \in 1..Len(groups) }
          = { sel[p].filename : p \in 1..Len(sel) }
    /\ \A g, h \in 1..Len(groups) :
          g < h => FirstOf(sel, groups[g].filename) < FirstOf(sel, groups[h].filename)
    /\ \A g \in 1..Len(groups) :
          \A mine \in { SelectSeq(sel, LAMBDA e : e.filename = groups[g].filename) } :
              groups[g].chunks =
                  [ i \in 1..Len(mine) |->
                      [ index |-> mine[i].index + 1,
                        preview |-> preview(mine[i].chunk) ] ]

\* Request r has been answered with its sources.
HasAnswered(as, r) == as[r].pc = "responded" /\ as[r].response.status = 200

\* C22: the retrieval result of a request (the chunks and their scores, the
\* selection and the grouping of the response) is a function of the documents
\* the request found and of its question and of nothing else: whatever the
\* other requests did before and meanwhile, the selection is the one that the
\* request's own rows and question determine (the rows' chunks by descending
\* score, ties in row and chunk order, cut at 8) and the grouping is the one
\* that the selection determines; two requests with the same rows and
\* question have the same selection and grouping; and no step of any request
\* changes the rows a request found, its selection or its answer.
C22_RetrievalIsAFunction ==
    /\ [](\A r \in Requests :
            HasSelected(asks, r) =>
                /\ IsRetrievalResultOf(asks[r].selection, asks[r].docs,
                                       asks[r].question, 8)
                /\ HasAnswered(asks, r) =>
                       /\ IsGroupingOf(asks[r].response.sources, asks[r].selection)
                       /\ asks[r].response.totalDocuments = Len(asks[r].docs)
                /\ \A o \in Requests :
                       (/\ HasSelected(asks, o)
                        /\ asks[o].docs = asks[r].docs
                        /\ asks[o].question = asks[r].question)
                           => /\ asks[o].selection = asks[r].selection
                              /\ (HasAnswered(asks, o) /\ HasAnswered(asks, r)) =>
                                     asks[o].response.sources = asks[r].response.sources)
    /\ [][\A r \in Requests :
            /\ HasSelected(asks, r) =>
                  /\ asks'[r].docs = asks[r].docs
                  /\ asks'[r].selection = asks[r].selection
            /\ HasAnswered(asks, r) => asks'[r].response = asks[r].response]_vars

\* Two requests with different questions were answered, and a document one of
\* them had found was deleted meanwhile.
C22_Witness ==
    /\ asks[1].response.status = 200
    /\ asks[2].response.status = 200
    /\ asks[1].question # asks[2].question
    /\ asks[1].selection # asks[2].selection
    /\ Len(documents) < Len(asks[1].docs)

(***************************************************************************)
(* Workspaces and their documents                                          *)
(***************************************************************************)

\* The workspace the document refers to is there and is its owner's.
RefersToOwnWorkspace(d) ==
    \E w \in 1..Len(workspaces) :
        /\ workspaces[w].id = d.workspaceId
        /\ workspaces[w].userId = d.userId

\* C23: under any interleaving of uploads and workspace deletions, the
\* workspace reference of each stored document is null or names an existing
\* workspace of the document's owner; after a workspace deletion that
\* succeeded no stored document refers to the deleted workspace.
C23_WorkspaceReferences ==
    \A i \in 1..Len(documents) :
        \/ documents[i].workspaceId = NoWorkspace
        \/ RefersToOwnWorkspace(documents[i])

\* C24: a workspace DELETE request that ends with an error response (404:
\* the workspace is not there or is not the caller's) leaves the stored
\* documents and workspaces as they were: it has deleted no document and
\* deletes no workspace.
C24_FailedDeleteChangesNothing ==
    [][(/\ deleting # NotDeleting
        /\ request'.route = "deleteWorkspace"
        /\ response'.status = 404)
           => (/\ deleting.removed = 0
               /\ documents' = documents
               /\ workspaces' = workspaces)]_vars

\* A workspace DELETE that succeeded, and a document of the caller's that
\* refers to the deleted workspace: it was uploaded between the two statements
\* of the request.
UploadedIntoDeletedWorkspace ==
    /\ request.route = "deleteWorkspace"
    /\ response.status = 200
    /\ \E i \in 1..Len(documents) :
          /\ documents[i].userId = request.session
          /\ documents[i].workspaceId = request.workspaceId

(***************************************************************************)
(* The lists: GET of the workspaces route and of the documents route       *)
(***************************************************************************)

\* (SELECT COUNT(*) FROM documents WHERE workspace_id = workspaces.id)
docCount(rows, workspaceId) ==
    Len(SelectSeq(rows, LAMBDA d : d.workspaceId = workspaceId))

\* userWorkspaces: the session's user's workspaces, each with its docCount.
userWorkspaces(userId) ==
    [ i \in 1..Len(SelectSeq(workspaces, LAMBDA w : w.userId = userId)) |->
        [ id |-> SelectSeq(workspaces, LAMBDA w : w.userId = userId)[i].id,
          docCount |->
              docCount(documents,
                       SelectSeq(workspaces, LAMBDA w : w.userId = userId)[i].id) ] ]

\* userDocs: the session's user's documents of the workspace of the query, or
\* those of no workspace when the query names none.
userDocs(rows, userId, workspaceId) ==
    SelectSeq(rows, LAMBDA d :
        /\ d.userId = userId
        /\ d.workspaceId = (IF workspaceId # Absent THEN workspaceId ELSE NoWorkspace))

\* C25: the docCount the workspace list gives for a workspace is the number of
\* documents its owner gets when listing the documents of that workspace.
C25_DocCountIsListLength ==
    \A u \in cookies :
        \A i \in 1..Len(userWorkspaces(u)) :
            userWorkspaces(u)[i].docCount
                = Len(userDocs(documents, u, userWorkspaces(u)[i].id))

(***************************************************************************)
(* The isApproved flag                                                     *)
(***************************************************************************)

\* C26: isApproved changes only through an admin PATCH: a PATCH without a
\* session or with a non-admin role ends with 403 and changes no user row, and
\* a PATCH with an ill-typed body or an unknown userId changes no user row.
C26_ApprovalOnlyByAdminPatch ==
    [][/\ users' # users =>
            /\ request'.route = "patchUser"
            /\ request'.session # NoSession
            /\ users[request'.session].role = "admin"
            /\ request'.body.wellTyped
            /\ response'.status = 200
            /\ \A u \in UserIds \ {request'.body.userId} : users'[u] = users[u]
       /\ request'.route = "patchUser" =>
            /\ (\/ request'.session = NoSession
                \/ users[request'.session].role # "admin")
                  => response'.status = 403 /\ users' = users
            /\ (\/ ~request'.body.wellTyped
                \/ request'.body.userId \notin UserIds)
                  => users' = users]_vars

\* An admin's PATCH has approved user 2, and a later PATCH by user 2 was
\* answered 403.
C26_Witness ==
    /\ users[2].isApproved
    /\ request.route = "patchUser"
    /\ request.session = 2
    /\ response.status = 403

(***************************************************************************)
(* The documents page: its state, its handlers and their pending fetches   *)
(***************************************************************************)

\* Most questions the user submits on the page.
MaxAsks == 2

\* The user whose browser has the page open.
PageUser == 1

\* What the user types as a question, trimmed; a blank one is not submitted.
PageQuestions == {"cat"}

\* How a fetch of handleAsk ends: res.ok with an answer, a response that is
\* not ok, or fetch / res.json() throwing.
AskOutcomes == {"answer", "error", "network"}

\* A message of the chat.  target and question are the selection and the
\* question of the request: for the user's message what was sent, for the
\* assistant's what the content answers.  The content of the assistant's
\* message is data.answer, the error or the network error text.
Message(role, content, target, q) ==
    [ role |-> role, content |-> content, target |-> target, question |-> q ]

UserMessage(a) == Message("user", a.question, a.target, a.question)

AssistantMessage(a, outcome) == Message("assistant", outcome, a.target, a.question)

\* docs.filter(d => d.id !== docId)
withoutDoc(docs, docId) == SelectSeq(docs, LAMBDA d : d # docId)

\* data.documents of GET /api/documents, with or without the workspaceId.
fetchedDocs(workspaceId) ==
    [ i \in 1..Len(userDocs(documents, PageUser, workspaceId)) |->
        userDocs(documents, PageUser, workspaceId)[i].id ]

\* data.workspaces of GET /api/workspaces.
fetchedWorkspaces ==
    [ i \in 1..Len(userWorkspaces(PageUser)) |-> userWorkspaces(PageUser)[i].id ]

\* A call of the page on its way: op is the function that made it, stage how
\* far it is (sent; served once the route has run, with the status and the
\* rows of its response; emptied between the two statements of the DELETE of
\* a workspace), workspaceId and selected are the workspace of the request and
\* the selectedWorkspace of the render the handler was made in, body what the
\* form carries.
Call(op, workspaceId, selected, body) ==
    [ op |-> op, stage |-> "sent", workspaceId |-> workspaceId,
      selected |-> selected, body |-> body, status |-> 0, rows |-> <<>> ]

ListWorkspacesCall == Call("listWorkspaces", Absent, 0, "")

ListDocsCall(workspaceId) == Call("listDocs", workspaceId, 0, "")

\* The response of the route has come for call c.
Served(c, status, rows) ==
    [ c EXCEPT !.stage = "served", !.status = status, !.rows = rows ]

\* The bag with one more call, with one call less, with call c become d.
withCall(calls, c) == calls (+) SetToBag({c})

withoutCall(calls, c) == calls (-) SetToBag({c})

callBecomes(calls, c, d) == withCall(withoutCall(calls, c), d)

\* The user may click once more.
mayClick(p) == p.clicks < MaxClicks

\* The component is mounted.
PageOpen(p) == p.kind \in {"workspaces", "documents"}

\* The render is the page and not the spinner of "if (loading)": only then
\* is there a button, a form or a file input for the user.
Rendered(p) == PageOpen(p) /\ ~p.loading

\* getSession() for a request of the page.
pageSession == IF PageUser \in cookies THEN PageUser ELSE NoSession

\* The page of part_006 ("workspaces") or that of part_005 ("documents") at
\* its first render, its effects run: the former has called fetchWorkspaces,
\* the latter fetchDocs.
OpenPage(kind) ==
    [ NoPage EXCEPT !.kind = kind,
                    !.pending = IF kind = "workspaces"
                                THEN SetToBag({ListWorkspacesCall})
                                ELSE SetToBag({ListDocsCall(Absent)}) ]

\* The user's documents when the page opens: in workspace 1 for the page of
\* workspaces, in no workspace for the page of documents.
PageTable(kind) ==
    << Row(1, PageUser, IF kind = "workspaces" THEN 1 ELSE NoWorkspace,
           "a.txt", <<"a">>),
       Row(2, PageUser, IF kind = "workspaces" THEN 1 ELSE NoWorkspace,
           "a.txt", <<"a">>) >>

PageWorkspaces == << [ id |-> 1, userId |-> PageUser ], [ id |-> 2, userId |-> PageUser ] >>

\* What no handler of the page and no route it calls changes.
pageFrame ==
    <<pc, text, chunks, chunk, question, score, scoreTwice, loop, asks, scope,
      selection, context, webContext, modelIndex, trace, users, cookies,
      deleting, signingIn, request, response>>

\* GET of the workspaces route for a pending fetchWorkspaces.
ListWorkspacesServed ==
    /\ \E c \in BagToSet(page.pending) :
        /\ c.op = "listWorkspaces" /\ c.stage = "sent"
        /\ page' = [ page EXCEPT !.pending =
                       callBecomes(@, c,
                           IF pageSession = NoSession
                           THEN Served(c, 401, <<>>)
                           ELSE Served(c, 200, fetchedWorkspaces)) ]
    /\ UNCHANGED <<pageFrame, documents, workspaces, serial>>

\* fetchWorkspaces after its awaits: on 401 router.push('/login'), else
\* setWorkspaces(data.workspaces || []); finally setLoading(false).  The
\* objects of the list are new ones: selectedWorkspace is none of them.
ListWorkspacesDelivered ==
    /\ PageOpen(page)
    /\ \E c \in BagToSet(page.pending) :
        /\ c.op = "listWorkspaces" /\ c.stage = "served"
        /\ page' = IF c.status = 401
                   THEN [ page EXCEPT !.kind = "login",
                                      !.loading = FALSE,
                                      !.pending = withoutCall(@, c) ]
                   ELSE [ page EXCEPT !.workspaces = c.rows,
                                      !.listed = FALSE,
                                      !.loading = FALSE,
                                      !.pending = withoutCall(@, c) ]
    /\ UNCHANGED <<pageFrame, documents, workspaces, serial>>

\* GET of the documents route for a pending fetchDocs.
ListDocsServed ==
    /\ \E c \in BagToSet(page.pending) :
        /\ c.op = "listDocs" /\ c.stage = "sent"
        /\ page' = [ page EXCEPT !.pending =
                       callBecomes(@, c,
                           IF pageSession = NoSession
                           THEN Served(c, 401, <<>>)
                           ELSE Served(c, 200, fetchedDocs(c.workspaceId))) ]
    /\ UNCHANGED <<pageFrame, documents, workspaces, serial>>

\* fetchDocs after its awaits: setDocs(data.documents || []); the page of
\* documents goes to the login page on 401 instead, and finally it calls
\* setLoading(false), which the fetchDocs of the page of workspaces does not.
ListDocsDelivered ==
    /\ PageOpen(page)
    /\ \E c \in BagToSet(page.pending) :
        /\ c.op = "listDocs" /\ c.stage = "served"
        /\ page' = IF c.status = 401 /\ page.kind = "documents"
                   THEN [ page EXCEPT !.kind = "login",
                                      !.loading = FALSE,
                                      !.pending = withoutCall(@, c) ]
                   ELSE [ page EXCEPT !.docs = c.rows,
                                      !.loading = IF page.kind = "documents"
                                                  THEN FALSE ELSE @,
                                      !.pending = withoutCall(@, c) ]
    /\ UNCHANGED <<pageFrame, documents, workspaces, serial>>

\* The fetch of a pending call rejects before the route has run: the catch
\* logs or sets the error shown, the finally of handleCreateWorkspace resets
\* creatingWS, and that of the fetch of the list the page opens with
\* (fetchWorkspaces, fetchDocs of the page of documents) resets loading.
CallFailed ==
    /\ PageOpen(page)
    /\ \E c \in BagToSet(page.pending) :
        /\ c.stage = "sent"
        /\ page' = [ page EXCEPT
                       !.pending = withoutCall(@, c),
                       !.creating = IF c.op = "createWorkspace" THEN FALSE ELSE @,
                       !.loading = IF \/ c.op = "listWorkspaces"
                                      \/ c.op = "listDocs" /\ page.kind = "documents"
                                   THEN FALSE ELSE @ ]
    /\ UNCHANGED <<pageFrame, documents, workspaces, serial>>

\* onClick of a workspace card: setSelectedWorkspace(ws); setChat([]).  When
\* ws is not the object selectedWorkspace is already, fetchDocs is made anew
\* and its effect fetches the documents of the workspace.
SelectWorkspace ==
    /\ page.kind = "workspaces"
    /\ Rendered(page)
    /\ mayClick(page)
    /\ \E i \in 1..Len(page.workspaces) :
        IF page.listed /\ page.selected = page.workspaces[i]
        THEN page' = [ page EXCEPT !.chat = <<>>, !.clicks = @ + 1 ]
        ELSE page' = [ page EXCEPT
                            !.selected = page.workspaces[i],
                            !.listed = TRUE,
                            !.chat = <<>>,
                            !.clicks = @ + 1,
                            !.pending = withCall(@, ListDocsCall(page.workspaces[i])) ]
    /\ UNCHANGED <<pageFrame, documents, workspaces, serial>>

\* onClick of a document of the list: setSelectedDoc(doc); setChat([]).
SelectDoc ==
    /\ page.kind = "documents"
    /\ Rendered(page)
    /\ mayClick(page)
    /\ \E i \in 1..Len(page.docs) :
        page' = [ page EXCEPT !.selected = page.docs[i], !.chat = <<>>,
                              !.clicks = @ + 1 ]
    /\ UNCHANGED <<pageFrame, documents, workspaces, serial>>

\* A submit that goes on although a request is pending.
mayAskAgain(p) == p.selected # 0

\* !(!selectedWorkspace || !question.trim() || asking), for a question that
\* is not blank.
mayAsk(p) == p.selected # 0 /\ ~p.asking

\* handleAsk up to its fetch: the user's message is appended, asking is set
\* and the request leaves with the selection and the question.
AskSubmit ==
    /\ Rendered(page)
    /\ page.asked < MaxAsks
    /\ mayAsk(page)
    /\ \E q \in PageQuestions :
        page' = [ page EXCEPT
                    !.asked = @ + 1,
                    !.chat = Append(@, UserMessage([ target |-> page.selected,
                                                     question |-> q ])),
                    !.asking = TRUE,
                    !.inFlight = @ \cup {[ id |-> page.asked + 1,
                                           target |-> page.selected,
                                           question |-> q ]} ]
    /\ UNCHANGED <<pageFrame, documents, workspaces, serial>>

\* handleAsk after its fetch: the assistant's message is appended in the try
\* or in the catch, and finally asking is reset.
AskSettled ==
    /\ PageOpen(page)
    /\ \E a \in page.inFlight, outcome \in AskOutcomes :
        page' = [ page EXCEPT
                    !.chat = Append(@, AssistantMessage(a, outcome)),
                    !.asking = FALSE,
                    !.inFlight = @ \ {a} ]
    /\ UNCHANGED <<pageFrame, documents, workspaces, serial>>

\* handleDelete up to its fetch, clicked on a document of the list: docs and
\* selectedDoc (which the page of workspaces has not) are those of the
\* render the handler was made in.  The button of a document is there as
\* long as the document is listed, whatever was clicked before.
DeleteClick ==
    /\ Rendered(page)
    /\ mayClick(page)
    /\ \E i \in 1..Len(page.docs) :
        page' = [ page EXCEPT
                    !.clicks = @ + 1,
                    !.deletes[page.docs[i]] =
                      Append(@, [ stage |-> "sent", docs |-> page.docs,
                                  selected |-> IF page.kind = "documents"
                                               THEN page.selected ELSE 0,
                                  ok |-> FALSE ]) ]
    /\ UNCHANGED <<pageFrame, documents, workspaces, serial>>

\* The DELETE of the documents route runs for a pending handleDelete: res.ok
\* is whether its statement deleted a row.
DeleteServed ==
    /\ \E d \in PageDocIds :
        \E k \in 1..Len(page.deletes[d]) :
            /\ page.deletes[d][k].stage = "sent"
            /\ documents' = IF pageSession = NoSession THEN documents
                            ELSE withoutDocument(documents, PageUser, d)
            /\ page' = [ page EXCEPT
                           !.deletes[d][k].stage = "served",
                           !.deletes[d][k].ok = (Len(documents') # Len(documents)) ]
    /\ UNCHANGED <<pageFrame, workspaces, serial>>

\* The fetch of a pending handleDelete throws: the catch logs.
DeleteFailed ==
    /\ PageOpen(page)
    /\ \E d \in PageDocIds :
        \E k \in 1..Len(page.deletes[d]) :
            /\ page.deletes[d][k].stage = "sent"
            /\ page' = [ page EXCEPT !.deletes[d][k].stage = "done" ]
    /\ UNCHANGED <<pageFrame, documents, workspaces, serial>>

\* handleDelete after its fetch: if (res.ok) setDocs(docs.filter(...)); the
\* page of documents also resets the selection and the chat when its
\* selectedDoc is the deleted document, the page of workspaces calls
\* fetchWorkspaces.
DeleteSettled ==
    /\ PageOpen(page)
    /\ \E d \in PageDocIds :
        \E k \in 1..Len(page.deletes[d]) :
            /\ page.deletes[d][k].stage = "served"
            /\ page' =
                 IF ~page.deletes[d][k].ok
                 THEN [ page EXCEPT !.deletes[d][k].stage = "done" ]
                 ELSE IF page.kind = "documents"
                 THEN IF page.deletes[d][k].selected = d
                      THEN [ page EXCEPT
                               !.deletes[d][k].stage = "done",
                               !.docs = withoutDoc(page.deletes[d][k].docs, d),
                               !.selected = 0,
                               !.chat = <<>> ]
                      ELSE [ page EXCEPT
                               !.deletes[d][k].stage = "done",
                               !.docs = withoutDoc(page.deletes[d][k].docs, d) ]
                 ELSE [ page EXCEPT
                          !.deletes[d][k].stage = "done",
                          !.docs = withoutDoc(page.deletes[d][k].docs, d),
                          !.pending = withCall(@, ListWorkspacesCall) ]
    /\ UNCHANGED <<pageFrame, documents, workspaces, serial>>

\* handleDeleteWorkspace up to its fetch, the confirm accepted:
\* selectedWorkspace is that of the render the handler was made in.
DeleteWorkspaceClick ==
    /\ page.kind = "workspaces"
    /\ Rendered(page)
    /\ mayClick(page)
    /\ \E i \in 1..Len(page.workspaces) :
        page' = [ page EXCEPT
                    !.clicks = @ + 1,
                    !.pending =
                      withCall(@, Call("deleteWorkspace", page.workspaces[i],
                                       page.selected, "")) ]
    /\ UNCHANGED <<pageFrame, documents, workspaces, serial>>

\* DELETE of the workspaces route for a pending handleDeleteWorkspace, to the
\* end of its first statement.
DeleteWorkspaceEmptied ==
    /\ \E c \in BagToSet(page.pending) :
        /\ c.op = "deleteWorkspace" /\ c.stage = "sent"
        /\ IF pageSession = NoSession
           THEN /\ page' = [ page EXCEPT !.pending =
                               callBecomes(@, c, Served(c, 401, <<>>)) ]
                /\ UNCHANGED documents
           ELSE /\ page' = [ page EXCEPT !.pending =
                               callBecomes(@, c, [ c EXCEPT !.stage = "emptied" ]) ]
                /\ documents' = withoutWorkspaceDocuments(documents, PageUser,
                                                          c.workspaceId)
    /\ UNCHANGED <<pageFrame, workspaces, serial>>

\* The same, from its second statement on.
DeleteWorkspaceServed ==
    /\ \E c \in BagToSet(page.pending) :
        /\ c.op = "deleteWorkspace" /\ c.stage = "emptied"
        /\ workspaces' = withoutWorkspace(workspaces, PageUser, c.workspaceId)
        /\ page' = [ page EXCEPT !.pending =
                       callBecomes(@, c,
                           Served(c, IF Len(workspaces') = Len(workspaces)
                                     THEN 404 ELSE 200, <<>>)) ]
    /\ UNCHANGED <<pageFrame, documents, serial>>

\* handleDeleteWorkspace after its fetch, whatever the status: the selection,
\* the documents and the chat are reset when selectedWorkspace was the
\* workspace, and fetchWorkspaces is called.
DeleteWorkspaceDelivered ==
    /\ PageOpen(page)
    /\ \E c \in BagToSet(page.pending) :
        /\ c.op = "deleteWorkspace" /\ c.stage = "served"
        /\ page' = IF c.selected = c.workspaceId
                   THEN [ page EXCEPT
                            !.selected = 0,
                            !.listed = FALSE,
                            !.docs = <<>>,
                            !.chat = <<>>,
                            !.pending = callBecomes(@, c, ListWorkspacesCall) ]
                   ELSE [ page EXCEPT
                            !.pending = callBecomes(@, c, ListWorkspacesCall) ]
    /\ UNCHANGED <<pageFrame, documents, workspaces, serial>>

\* The file the user picks or drops: one the upload route reads or one it
\* refuses.
PageFiles == {"readable", "unsupported"}

\* handleUpload up to its fetch; the page of workspaces wants a workspace
\* selected and sends its id.
UploadClick ==
    /\ Rendered(page)
    /\ page.kind = "workspaces" => page.selected # 0
    /\ mayClick(page)
    /\ \E file \in PageFiles :
        page' = [ page EXCEPT
                    !.clicks = @ + 1,
                    !.pending =
                      withCall(@, Call("upload",
                                       IF page.kind = "workspaces"
                                       THEN page.selected ELSE Absent,
                                       page.selected, file)) ]
    /\ UNCHANGED <<pageFrame, documents, workspaces, serial>>

\* POST of the upload route for a pending handleUpload.
UploadServed ==
    /\ \E c \in BagToSet(page.pending) :
        /\ c.op = "upload" /\ c.stage = "sent"
        /\ IF pageSession = NoSession \/ c.body # "readable"
           THEN /\ page' = [ page EXCEPT !.pending =
                               callBecomes(@, c,
                                   Served(c, IF pageSession = NoSession
                                             THEN 401 ELSE 400, <<>>)) ]
                /\ UNCHANGED <<documents, serial>>
           ELSE /\ documents' = insertDocument(documents, PageUser,
                                               formWorkspaceId(c.workspaceId),
                                               "a.txt", <<"a">>)
                /\ serial' = [ serial EXCEPT !.documents = @ + 1 ]
                /\ page' = [ page EXCEPT !.pending =
                               callBecomes(@, c, Served(c, 200, <<>>)) ]
    /\ UNCHANGED <<pageFrame, workspaces>>

\* handleUpload after its fetch: when res.ok, fetchDocs() of the render the
\* handler was made in and, on the page of workspaces, fetchWorkspaces().
UploadDelivered ==
    /\ PageOpen(page)
    /\ \E c \in BagToSet(page.pending) :
        /\ c.op = "upload" /\ c.stage = "served"
        /\ page' =
             IF c.status # 200
             THEN [ page EXCEPT !.pending = withoutCall(@, c) ]
             ELSE IF page.kind = "documents"
             THEN [ page EXCEPT !.pending =
                      callBecomes(@, c, ListDocsCall(Absent)) ]
             ELSE [ page EXCEPT !.pending =
                      withCall(callBecomes(@, c, ListDocsCall(c.workspaceId)),
                               ListWorkspacesCall) ]
    /\ UNCHANGED <<pageFrame, documents, workspaces, serial>>

\* The name the form carries, trimmed and not blank; its input has
\* maxLength 100, so the name is one the route takes.
PageNames == {"named"}

\* handleCreateWorkspace up to its fetch: !(!newWSName.trim() || creatingWS).
CreateSubmit ==
    /\ page.kind = "workspaces"
    /\ Rendered(page)
    /\ ~page.creating
    /\ mayClick(page)
    /\ \E name \in PageNames :
        page' = [ page EXCEPT
                    !.clicks = @ + 1,
                    !.creating = TRUE,
                    !.pending = withCall(@, Call("createWorkspace", Absent,
                                                 page.selected, name)) ]
    /\ UNCHANGED <<pageFrame, documents, workspaces, serial>>

\* POST of the workspaces route for a pending handleCreateWorkspace.
CreateServed ==
    /\ \E c \in BagToSet(page.pending) :
        /\ c.op = "createWorkspace" /\ c.stage = "sent"
        /\ IF pageSession = NoSession \/ c.body # "named"
           THEN /\ page' = [ page EXCEPT !.pending =
                               callBecomes(@, c,
                                   Served(c, IF pageSession = NoSession
                                             THEN 401 ELSE 400, <<>>)) ]
                /\ UNCHANGED <<workspaces, serial>>
           ELSE /\ workspaces' = Append(workspaces,
                                        [ id |-> serial.workspaces + 1,
                                          userId |-> PageUser ])
                /\ serial' = [ serial EXCEPT !.workspaces = @ + 1 ]
                /\ page' = [ page EXCEPT !.pending =
                               callBecomes(@, c, Served(c, 201, <<>>)) ]
    /\ UNCHANGED <<pageFrame, documents>>

\* handleCreateWorkspace after its fetch: fetchWorkspaces() when res.ok, and
\* finally creatingWS is reset.
CreateDelivered ==
    /\ PageOpen(page)
    /\ \E c \in BagToSet(page.pending) :
        /\ c.op = "createWorkspace" /\ c.stage = "served"
        /\ page' = [ page EXCEPT
                       !.creating = FALSE,
                       !.pending = IF c.status = 201
                                   THEN callBecomes(@, c, ListWorkspacesCall)
                                   ELSE withoutCall(@, c) ]
    /\ UNCHANGED <<pageFrame, documents, workspaces, serial>>

\* handleLogout up to its fetch.
LogoutClick ==
    /\ Rendered(page)
    /\ mayClick(page)
    /\ page' = [ page EXCEPT
                   !.clicks = @ + 1,
                   !.pending = withCall(@, Call("logout", 0, page.selected, "")) ]
    /\ UNCHANGED <<pageFrame, documents, workspaces, serial>>

\* POST /api/auth/logout: the auth cookie is cleared, and getSession() gives
\* null to the requests served after it.
LogoutServed ==
    /\ \E c \in BagToSet(page.pending) :
        /\ c.op = "logout" /\ c.stage = "sent"
        /\ cookies' = cookies \ {PageUser}
        /\ page' = [ page EXCEPT !.pending = callBecomes(@, c, Served(c, 200, <<>>)) ]
    /\ UNCHANGED <<pc, text, chunks, chunk, question, score, scoreTwice, loop, asks,
                   scope, selection, context, webContext, modelIndex, trace, users,
                   deleting, signingIn, request, response, documents, workspaces,
                   serial>>

\* handleLogout after its fetch: router.push('/login').
LogoutDelivered ==
    /\ PageOpen(page)
    /\ \E c \in BagToSet(page.pending) :
        /\ c.op = "logout" /\ c.stage = "served"
        /\ page' = [ page EXCEPT !.kind = "login", !.pending = withoutCall(@, c) ]
    /\ UNCHANGED <<pageFrame, documents, workspaces, serial>>

InitPage ==
    /\ pc = "idle"
    /\ text = <<>>
    /\ chunks = <<>>
    /\ chunk = <<>>
    /\ question = <<>>
    /\ score = [num |-> 0, den |-> 1]
    /\ scoreTwice = [num |-> 0, den |-> 1]
    /\ loop = NotLooping
    /\ asks = NoAsks
    /\ page \in { OpenPage(kind) : kind \in {"workspaces", "documents"} }
    /\ documents = PageTable(page.kind)
    /\ users = InitialUsers
    /\ cookies = {PageUser}
    /\ workspaces = PageWorkspaces
    /\ serial = [ documents |-> Len(documents), workspaces |-> Len(PageWorkspaces) ]
    /\ deleting = NotDeleting
    /\ signingIn = NotSigningIn
    /\ request = NoRequest
    /\ scope = <<>>
    /\ selection = <<>>
    /\ context = <<>>
    /\ webContext = FALSE
    /\ modelIndex = 0
    /\ trace = <<>>
    /\ response = NoResponse

\* The handlers that read or write the selection, the chat or asking, with
\* the fetches of the lists their clicks need.
NextAsking ==
    \/ SelectWorkspace
    \/ SelectDoc
    \/ ListWorkspacesServed
    \/ ListWorkspacesDelivered
    \/ ListDocsServed
    \/ ListDocsDelivered
    \/ CallFailed
    \/ AskSubmit
    \/ AskSettled
    \/ DeleteClick
    \/ DeleteServed
    \/ DeleteFailed
    \/ DeleteSettled
    \/ DeleteWorkspaceClick
    \/ DeleteWorkspaceEmptied
    \/ DeleteWorkspaceServed
    \/ DeleteWorkspaceDelivered

NextPage ==
    \/ NextAsking
    \/ UploadClick
    \/ UploadServed
    \/ UploadDelivered
    \/ CreateSubmit
    \/ CreateServed
    \/ CreateDelivered
    \/ LogoutClick
    \/ LogoutServed
    \/ LogoutDelivered

SpecPage == InitPage /\ [][NextPage]_vars

\* The asking of the page: every fetch of handleAsk ends, it resolves or it
\* rejects.
SpecAskingFair == InitPage /\ [][NextAsking]_vars /\ WF_vars(AskSettled)

\* C27: every assistant message of the chat answers a question asked in the
\* selected workspace (or document) and has that user question before it in
\* the chat, also when the selection changes while an ask is pending.
C27_AnswersBelongToSelection ==
    \A i \in 1..Len(page.chat) :
        page.chat[i].role = "assistant" =>
            /\ page.chat[i].target = page.selected
            /\ \E j \in 1..(i - 1) :
                page.chat[j] = UserMessage(page.chat[i])

\* C28: at most one ask request is pending at any time; a submitted question
\* appends exactly one user message, and eventually its request ends and
\* appends exactly one assistant message, nothing else appends an
\* assistant's message; asking eventually returns to false.  The request
\* pending being the only one, it has ended once none is pending.
C28_OneAskAtATime ==
    /\ [](Cardinality(page.inFlight) <= 1)
    /\ [][page'.asked # page.asked =>
            /\ Cardinality(page'.inFlight \ page.inFlight) = 1
            /\ page.inFlight \subseteq page'.inFlight
            /\ \A a \in page'.inFlight \ page.inFlight :
                page'.chat = Append(page.chat, UserMessage(a))]_vars
    /\ [][\A a \in page.inFlight \ page'.inFlight :
            /\ \E outcome \in AskOutcomes :
                page'.chat = Append(page.chat, AssistantMessage(a, outcome))
            /\ ~page'.asking]_vars
    /\ [][(/\ Len(page'.chat) > 0
           /\ page'.chat # page.chat
           /\ page'.chat[Len(page'.chat)].role = "assistant")
              => Cardinality(page.inFlight \ page'.inFlight) = 1]_vars
    /\ (page.asking \/ page.inFlight # {})
            ~> (~page.asking /\ page.inFlight = {})

\* Every question allowed has been submitted and answered, the last request
\* having failed on the network.
C28_Witness ==
    /\ page.asked = MaxAsks
    /\ page.inFlight = {}
    /\ ~page.asking
    /\ Len(page.chat) = 2 * MaxAsks
    /\ page.chat[Len(page.chat)].content = "network"

\* C29: once the delete requests of two different documents have both
\* succeeded, neither document is in the list the page shows.
C29_DeletedDocumentsNotShown ==
    \A d1, d2 \in PageDocIds :
        (/\ d1 # d2
         /\ \E k \in 1..Len(page.deletes[d1]) :
               page.deletes[d1][k].stage = "done" /\ page.deletes[d1][k].ok
         /\ \E k \in 1..Len(page.deletes[d2]) :
               page.deletes[d2][k].stage = "done" /\ page.deletes[d2][k].ok)
            => \A i \in 1..Len(page.docs) : page.docs[i] \notin {d1, d2}

(***************************************************************************)
(* The rate-limit error of the question-answering routes                   *)
(***************************************************************************)

\* What the calls of the completion service made so far came back with.
CallOutcomes == SelectSeq(trace, LAMBDA e : e \in CompletionOutcomes)

\* C30: in the ask, legacy and deep-search routes the rate-limit error is
\* returned only if every model was called and every call failed with a
\* rate-limit error; a call that succeeds yields a success response with that
\* call's text, also when the text is empty.
C30_RateLimitErrorOnlyWhenLimited ==
    request.route \in {"ask", "legacy", "deep"} =>
        /\ (pc = "responded" /\ response = ErrorResponse(500, RateLimitedMessage)) =>
              /\ Len(CallOutcomes) = Len(Models)
              /\ \A k \in 1..Len(CallOutcomes) : CallOutcomes[k] = "rateLimited"
        /\ \A k \in 1..Len(CallOutcomes) :
              CallOutcomes[k] \in {"text", "empty"} =>
                  /\ pc = "responded"
                  /\ response.status = 200
                  /\ response.answer = CallOutcomes[k]

====
